---------------------------- MODULE Spec2Model ----------------------------
(***************************************************************************)
(* State-machine model of the Ryki trading engine: the relational store    *)
(* (Trade, Position, RiskState rows), the cache key system:status, the     *)
(* exchange's order book-keeping, and the Celery tasks / websocket         *)
(* handlers that act on them.                                              *)
(*                                                                         *)
(* Decimal amounts are integers.  Prices are in whole quote units and the  *)
(* entry prices used are multiples of 100, so that every division the code *)
(* performs on them (1 % stop distance, percentages) is exact.  Percentages*)
(* are kept in basis points (1 % = 100).                                   *)
(***************************************************************************)
EXTENDS Integers, Sequences, FiniteSets, TLC

VARIABLES
    positions,    \* store: Position rows, id = index
    trades,       \* store: Trade rows, id = index
    riskState,    \* store: today's RiskState row
    cacheStatus,  \* cache: value of key system:status
    orders,       \* exchange: orders created, orderId = index
    cancelCalls,  \* exchange: symbols cancel_all_orders was called for, in call order
    closers,      \* close_position task instances
    monitors,     \* monitor_order task instances
    wsQueue,      \* user-data stream: executionReport messages not yet handled
    execTasks,    \* execute_trade task instances
    ticks,        \* strategy_tick task instances
    cbTask,       \* check_circuit_breaker task: what its last run observed and did
    riskWriters,  \* handlers holding a RiskState object they loaded and have not saved
    call,         \* analysis services: the last call made, its arguments and its result
    klineFeed,    \* 1m klines of one symbol: bars the exchange has closed, and the cache list
    clock         \* timezone.now(), in ticks

vars == <<positions, trades, riskState, cacheStatus, orders, cancelCalls,
          closers, monitors, wsQueue, execTasks, ticks, cbTask, riskWriters, call, klineFeed, clock>>

(***************************************************************************)
(* Bounds of the model                                                     *)
(***************************************************************************)
\* prices move at most this far from the entry price
MaxMove == 6
\* the clock advances at most this far
MaxClock == 2
\* cancel_all_orders calls the exchange's log keeps
MaxCancelLog == 4
\* close_position tasks ever enqueued
MaxCloseTasks == 2
\* monitor_order task instances ever enqueued
MaxMonitors == 3
\* strategy_tick task instances ever enqueued
MaxTicks == 2
\* execute_trade task instances ever enqueued
MaxExecTasks == 2
MaxRiskWriters == 2
MaxTotalTrades == 2

(***************************************************************************)
(* Program constants                                                       *)
(***************************************************************************)
\* a nullable column holding NULL / Python None
None == -1
\* settings.TRAILING_TRIGGER_PCT = 0.02, times 100, in basis points
TRAILING_TRIGGER_BP == 200
\* settings.DAILY_DRAWDOWN_LIMIT = 0.05, times 100, in basis points
DAILY_DRAWDOWN_LIMIT_BP == 500
\* get_stop_loss_price's fallback stop distance, entry_price * 0.01, as a divisor
STOP_DIVISOR == 100
\* a percentage column is DecimalField(max_digits=8, decimal_places=6): saving a
\* value of magnitude 100 % or more raises; in basis points
PCT_COLUMN_LIMIT_BP == 10000

\* @shared_task(bind=True, max_retries=3) of strategy_tick
TICK_MAX_RETRIES == 3
\* @shared_task(bind=True, max_retries=3) of execute_trade
EXEC_MAX_RETRIES == 3
\* @shared_task(bind=True, max_retries=10) of monitor_order
MONITOR_MAX_RETRIES == 10

TRADING_PAIRS == <<"BTCUSDT", "ETHUSDT">>
Symbols == {TRADING_PAIRS[i] : i \in DOMAIN TRADING_PAIRS}

Sides == {"BUY", "SELL"}

Abs(x) == IF x < 0 THEN -x ELSE x

(***************************************************************************)
(* Cache: system:status                                                    *)
(***************************************************************************)
set_system_status(status, reason) == [status |-> status, reason |-> reason]

is_trading_active == cacheStatus.status = "ACTIVE"

(***************************************************************************)
(* Trade rows                                                              *)
(***************************************************************************)
NewTrade(order_id, symbol, side, order_type, qty, price, expected) ==
    [ binance_order_id   |-> order_id,
      symbol             |-> symbol,
      side               |-> side,
      order_type         |-> order_type,
      requested_quantity |-> qty,
      filled_quantity    |-> 0,
      requested_price    |-> price,
      execution_price    |-> None,
      average_price      |-> None,
      expected_price     |-> expected,
      slippage           |-> 0,
      slippage_pct       |-> 0,
      status             |-> "PENDING",
      filled_at          |-> None ]

(***************************************************************************)
(* Position rows and the trailing-stop state machine                       *)
(***************************************************************************)
\* RiskManager.get_stop_loss_price with atr = None (as create_position_from_trade
\* calls it): a 1 % stop below a long's entry, above a short's
get_stop_loss_price(entry_price, side) ==
    LET stop_distance == entry_price \div STOP_DIVISOR
    IN  IF side = "BUY" THEN entry_price - stop_distance
                        ELSE entry_price + stop_distance

\* `x or y` on nullable decimals
Or(x, y) == IF x = None \/ x = 0 THEN y ELSE x

\* the Position row create_position_from_trade inserts for a filled entry trade
create_position_from_trade(trade_id, trade) ==
    LET entry     == Or(trade.average_price, trade.requested_price)
        stop_loss == get_stop_loss_price(entry, trade.side)
    IN  [ entry_trade        |-> trade_id,
          exit_trade         |-> None,
          symbol             |-> trade.symbol,
          side               |-> trade.side,
          quantity           |-> trade.filled_quantity,
          entry_price        |-> entry,
          current_price      |-> None,
          unrealized_pnl     |-> 0,
          unrealized_pnl_pct |-> 0,
          initial_stop       |-> stop_loss,
          current_stop       |-> stop_loss,
          trailing_activated |-> FALSE,
          trailing_distance  |-> None,
          highest_price      |-> None,
          lowest_price       |-> None,
          take_profit        |-> None,
          status             |-> "OPEN",
          close_reason       |-> "",
          closed_at          |-> None ]

\* Position.update_unrealized_pnl: the row after the call (percentage in basis points)
update_unrealized_pnl(p, current_price) ==
    LET pnl == IF p.side = "BUY" THEN (current_price - p.entry_price) * p.quantity
                                 ELSE (p.entry_price - current_price) * p.quantity
    IN  [p EXCEPT !.current_price      = current_price,
                  !.unrealized_pnl     = pnl,
                  !.unrealized_pnl_pct = (pnl * 100 * 100) \div (p.entry_price * p.quantity)]

\* the activation step of Position.update_trailing_stop
ActivateTrailing(p, current_price, trigger_bp) ==
    IF ~p.trailing_activated /\ p.unrealized_pnl_pct >= trigger_bp
    THEN [p EXCEPT !.trailing_activated = TRUE,
                   !.trailing_distance  = Abs(current_price - p.current_stop),
                   !.highest_price      = IF p.side = "BUY" THEN current_price ELSE None,
                   !.lowest_price       = IF p.side = "SELL" THEN current_price ELSE None]
    ELSE p

\* RatchetLong without the new-high test: the stop follows the price down as well
RatchetLongFollowsPrice(p, current_price) ==
    [p EXCEPT !.highest_price = current_price,
              !.current_stop  = current_price - p.trailing_distance]

\* the ratchet step of Position.update_trailing_stop for a long
RatchetLong(p, current_price) ==
    IF current_price > (IF p.highest_price = None THEN 0 ELSE p.highest_price)
    THEN LET new_stop == current_price - p.trailing_distance
         IN  [p EXCEPT !.highest_price = current_price,
                       !.current_stop  = IF new_stop > p.current_stop
                                         THEN new_stop ELSE p.current_stop]
    ELSE p

\* RatchetShort without the new-low test: the stop follows the price up as well
RatchetShortFollowsPrice(p, current_price) ==
    [p EXCEPT !.lowest_price = current_price,
              !.current_stop = current_price + p.trailing_distance]

\* the ratchet step of Position.update_trailing_stop for a short
RatchetShort(p, current_price) ==
    IF p.lowest_price = None \/ current_price < p.lowest_price
    THEN LET new_stop == current_price + p.trailing_distance
         IN  [p EXCEPT !.lowest_price = current_price,
                       !.current_stop = IF new_stop < p.current_stop
                                        THEN new_stop ELSE p.current_stop]
    ELSE p

\* Position.update_trailing_stop: the row it saves
update_trailing_stop(p, current_price, trigger_bp) ==
    LET a == ActivateTrailing(p, current_price, trigger_bp)
    IN  IF a.trailing_activated
        THEN IF a.side = "BUY" THEN RatchetLong(a, current_price)
                               ELSE RatchetShort(a, current_price)
        ELSE a

\* saving a percentage column raises when the value does not fit the column
PctOverflows(pct_bp) == Abs(pct_bp) >= PCT_COLUMN_LIMIT_BP

\* the loop of RiskManager.update_trailing_stops over the OPEN positions (newest
\* first, Position.Meta.ordering), from row i down: the Position rows afterwards.
\* An exception (the save of an overflowing percentage) leaves the loop; it is
\* caught by the method, the rows saved so far stay saved.
RECURSIVE trailing_loop(_, _, _)
trailing_loop(ps, i, current_prices) ==
    IF i = 0 THEN ps
    ELSE IF ps[i].status # "OPEN" \/ ps[i].symbol \notin DOMAIN current_prices
    THEN trailing_loop(ps, i - 1, current_prices)
    ELSE LET current_price == current_prices[ps[i].symbol]
             q == update_unrealized_pnl(ps[i], current_price)
         IN  IF PctOverflows(q.unrealized_pnl_pct)
             THEN ps
             ELSE trailing_loop(
                      [ps EXCEPT ![i] = update_trailing_stop(q, current_price,
                                                             TRAILING_TRIGGER_BP)],
                      i - 1, current_prices)

\* RiskManager._check_stop_hit
check_stop_hit(p, current_price) ==
    IF p.side = "BUY" THEN current_price <= p.current_stop
                      ELSE current_price >= p.current_stop


(***************************************************************************)
(* RiskState rows                                                          *)
(***************************************************************************)
\* the row RiskState.get_or_create_today creates when the day has none
NewRiskState(date, starting_balance) ==
    [ date              |-> date,
      starting_balance  |-> starting_balance,
      current_balance   |-> starting_balance,
      highest_balance   |-> starting_balance,
      daily_pnl         |-> 0,
      daily_pnl_pct     |-> 0,
      drawdown          |-> 0,
      drawdown_pct      |-> 0,
      max_drawdown_pct  |-> 0,
      total_trades      |-> 0,
      system_status     |-> "ACTIVE",
      pause_reason      |-> "",
      paused_at         |-> None ]

\* update_balance without the high-water mark: highest_balance is left as it was
UpdateBalanceKeepsHighest(rs, new_balance) ==
    [rs EXCEPT !.current_balance = new_balance,
               !.drawdown = rs.highest_balance - new_balance]

\* RiskState.update_balance up to its save: the object in memory
update_balance_object(rs, new_balance) ==
    LET highest  == IF new_balance > rs.highest_balance THEN new_balance
                                                        ELSE rs.highest_balance
        pnl      == new_balance - rs.starting_balance
        pnl_pct  == IF rs.starting_balance > 0
                    THEN (pnl * 100 * 100) \div rs.starting_balance
                    ELSE rs.daily_pnl_pct
        drawdown == highest - new_balance
        dd_pct   == IF highest > 0 THEN (drawdown * 100 * 100) \div highest
                                   ELSE rs.drawdown_pct
    IN  [rs EXCEPT !.current_balance  = new_balance,
                   !.highest_balance  = highest,
                   !.daily_pnl        = pnl,
                   !.daily_pnl_pct    = pnl_pct,
                   !.drawdown         = drawdown,
                   !.drawdown_pct     = dd_pct,
                   !.max_drawdown_pct = IF dd_pct > rs.max_drawdown_pct
                                        THEN dd_pct ELSE rs.max_drawdown_pct]

\* whether saving the RiskState object raises: a percentage does not fit its column
RiskStateSaveRaises(rs) ==
    \/ PctOverflows(rs.daily_pnl_pct)
    \/ PctOverflows(rs.drawdown_pct)
    \/ PctOverflows(rs.max_drawdown_pct)

\* RiskState.trigger_circuit_breaker(reason): the row it saves
riskstate_trigger_circuit_breaker(rs, reason, now) ==
    [rs EXCEPT !.system_status = "PAUSED", !.pause_reason = reason, !.paused_at = now]

(***************************************************************************)
(* Exchange orders and task instances                                      *)
(***************************************************************************)
\* the order the exchange creates for place_order; origin names the task and the
\* signal or position the order was placed for
NewOrder(symbol, side, order_type, quantity, price, origin) ==
    [ symbol |-> symbol, side |-> side, type |-> order_type, origQty |-> quantity,
      price |-> price, status |-> "NEW", executedQty |-> 0,
      cummulativeQuoteQty |-> 0, origin |-> origin ]

\* the entry order of a FILLED entry trade, as the exchange holds it
FilledEntryOrder(symbol, side, qty, price) ==
    [NewOrder(symbol, side, "LIMIT", qty, price, [task |-> "execute_trade", ref |-> 1])
        EXCEPT !.status = "FILLED", !.executedQty = qty,
               !.cummulativeQuoteQty = qty * price]

\* a row not read yet
NoRow == [status |-> "NONE"]

\* an executionReport of the user-data stream for order o; row is the Trade
\* object _handle_order_update holds once it has read it
executionReport(order_id, o) ==
    [ i |-> order_id, X |-> o.status, z |-> o.executedQty,
      Z |-> o.cummulativeQuoteQty, row |-> NoRow ]

\* the exchange status of an order that can still trade
IsWorking(o) == o.status \in {"NEW", "PARTIALLY_FILLED"}

\* client.cancel_open_orders for each of the symbols: the exchange's orders after it
cancel_open_orders(os, symbols) ==
    [i \in DOMAIN os |->
        IF IsWorking(os[i]) /\ os[i].symbol \in symbols
        THEN [os[i] EXCEPT !.status = "CANCELED"] ELSE os[i]]

\* the executionReports the exchange sends for the orders that changed, from i up
RECURSIVE reports_of(_, _, _)
reports_of(old, new, i) ==
    IF i > Len(old) THEN <<>>
    ELSE (IF old[i] # new[i] THEN <<executionReport(i, new[i])>> ELSE <<>>)
            \o reports_of(old, new, i + 1)

\* monitor_order.delay(trade_id): a task instance waiting for a worker
NewMonitor(trade_id) ==
    [ trade_id |-> trade_id, retries |-> 0, pc |-> "queued", trade |-> NoRow,
      order_status |-> "NONE", filled_qty |-> 0 ]

\* close_position.delay(position_id, reason): a task instance waiting for a worker
NewCloser(position_id, reason) ==
    [ position_id |-> position_id, reason |-> reason, pc |-> "queued",
      position |-> NoRow, order_id |-> None, exit_trade |-> None ]

(***************************************************************************)
(* The state the init_trading command leaves, with nothing in flight       *)
(***************************************************************************)
\* the balances the exchange may report for the account's free USDT
BalanceSet == {0, 380, 399, 400, 420}

\* no kline has been streamed yet
NoFeed == [closed |-> 0, cache |-> <<>>]

\* no analysis service has been called yet
NoCall == [fn |-> "none"]

\* no circuit-breaker operation has run yet
CbIdle ==
    [ seq |-> 0, op |-> "none", balance |-> None, should_trigger |-> FALSE,
      failing |-> {} ]

NoTasks ==
    /\ closers = <<>>
    /\ monitors = <<>>
    /\ wsQueue = <<>>
    /\ execTasks = <<>>
    /\ ticks = <<>>
    /\ cbTask = CbIdle
    /\ riskWriters = <<>>
    /\ klineFeed = NoFeed
    /\ call = NoCall

taskVars == <<closers, monitors, wsQueue, execTasks, ticks, cbTask, riskWriters, call, klineFeed>>

\* init_trading: today's RiskState exists, cache system:status is ACTIVE
InitTrading(starting_balance) ==
    /\ riskState = NewRiskState(0, starting_balance)
    /\ cacheStatus = set_system_status("ACTIVE", "")
    /\ clock = 0

(***************************************************************************)
(* SpecTrail: one position under RiskManager.update_trailing_stops and     *)
(* StrategyCoordinator._evaluate_exit                                      *)
(***************************************************************************)
EntryPrices == {100, 200}
Quantities == {1, 2}

\* the prices the market may show: around each entry price, and its double
PriceSet == UNION {{e + d : d \in (0 - MaxMove)..MaxMove} \cup {2 * e} : e \in EntryPrices}

\* a FILLED entry Trade row
FilledEntryTrade(order_id, symbol, side, qty, price) ==
    [NewTrade(order_id, symbol, side, "LIMIT", qty, price, price) EXCEPT
        !.filled_quantity = qty, !.average_price = price, !.execution_price = price,
        !.status = "FILLED", !.filled_at = 0]

\* the symbols some Position row is on
HeldSymbols == {positions[i].symbol : i \in DOMAIN positions}

\* the dictionaries monitor_positions builds: a price for every symbol it could get
\* one for (only the symbols some position is on are ever looked up)
PriceMaps == UNION {[S -> PriceSet] : S \in SUBSET HeldSymbols}

InitTrail ==
    /\ \E side \in Sides, entry \in EntryPrices, qty \in Quantities :
          /\ trades = <<FilledEntryTrade(1, TRADING_PAIRS[1], side, qty, entry)>>
          /\ positions = <<create_position_from_trade(1, trades[1])>>
          /\ orders = <<FilledEntryOrder(TRADING_PAIRS[1], side, qty, entry)>>
    /\ cancelCalls = <<>>
    /\ InitTrading(400)
    /\ NoTasks

\* RiskManager.update_trailing_stops(current_prices)
update_trailing_stops(current_prices) ==
    /\ positions' = trailing_loop(positions, Len(positions), current_prices)
    /\ UNCHANGED <<trades, riskState, cacheStatus, orders, cancelCalls, taskVars, clock>>

\* the Position row after StrategyCoordinator._evaluate_exit's update_unrealized_pnl
\* (save of the three PnL columns only; an overflowing percentage raises and
\* evaluate_symbol returns nothing)
evaluate_exit_row(p, current_price) ==
    LET q == update_unrealized_pnl(p, current_price)
    IN  IF PctOverflows(q.unrealized_pnl_pct) THEN p ELSE q

\* StrategyCoordinator._evaluate_exit on the OPEN position i, as far as it writes
evaluate_exit(i, current_price) ==
    /\ is_trading_active
    /\ positions[i].status = "OPEN"
    /\ positions' = [positions EXCEPT ![i] = evaluate_exit_row(positions[i], current_price)]
    /\ UNCHANGED <<trades, riskState, cacheStatus, orders, cancelCalls, taskVars, clock>>

NextTrail ==
    \/ \E current_prices \in PriceMaps : update_trailing_stops(current_prices)
    \/ \E i \in DOMAIN positions, current_price \in PriceSet : evaluate_exit(i, current_price)

SpecTrail == InitTrail /\ [][NextTrail]_vars

\* C1: for a long position, once trailing_activated, current_stop never decreases
\* from one update to the next, and after every update
\* current_stop <= highest_price - trailing_distance
C1_LongBound ==
    \A i \in DOMAIN positions :
        (positions[i].side = "BUY" /\ positions[i].trailing_activated)
        => positions[i].current_stop
              <= positions[i].highest_price - positions[i].trailing_distance

C1_LongStopRatchets ==
    [](C1_LongBound)
    /\ [][\A i \in DOMAIN positions :
            (positions[i].side = "BUY" /\ positions[i].trailing_activated)
            => positions'[i].current_stop >= positions[i].current_stop]_vars

\* a long whose trailing stop has been moved above its initial stop
C1_Witness ==
    \E i \in DOMAIN positions :
        /\ positions[i].side = "BUY" /\ positions[i].trailing_activated
        /\ positions[i].current_stop > positions[i].initial_stop
        /\ positions[i].current_price < positions[i].highest_price

\* C2: for a short position, once trailing_activated, current_stop never increases
\* from one update to the next, and after every update
\* current_stop >= lowest_price + trailing_distance
C2_ShortBound ==
    \A i \in DOMAIN positions :
        (positions[i].side = "SELL" /\ positions[i].trailing_activated)
        => /\ positions[i].lowest_price # None
           /\ positions[i].current_stop
                 >= positions[i].lowest_price + positions[i].trailing_distance

C2_ShortStopRatchets ==
    [](C2_ShortBound)
    /\ [][\A i \in DOMAIN positions :
            (positions[i].side = "SELL" /\ positions[i].trailing_activated)
            => positions'[i].current_stop <= positions[i].current_stop]_vars

\* a short whose trailing stop has been moved below its initial stop
C2_Witness ==
    \E i \in DOMAIN positions :
        /\ positions[i].side = "SELL" /\ positions[i].trailing_activated
        /\ positions[i].current_stop < positions[i].initial_stop
        /\ positions[i].current_price > positions[i].lowest_price

(***************************************************************************)
(* SpecBreaker: the circuit breaker (check_circuit_breaker task, manual    *)
(* pause and resume), each handler run as a whole                          *)
(***************************************************************************)
\* RiskManager.check_circuit_breaker(): what it returns and the RiskState row it
\* leaves.  balance = None: get_account_balance raised.
check_circuit_breaker(rs, balance) ==
    IF rs.system_status = "PAUSED"
    THEN [should_trigger |-> TRUE, reason |-> "System already paused", row |-> rs]
    ELSE IF balance = None
    THEN [should_trigger |-> FALSE, reason |-> "Error", row |-> rs]
    ELSE LET m == update_balance_object(rs, balance)
         IN  IF RiskStateSaveRaises(m)
             THEN [should_trigger |-> FALSE, reason |-> "Error", row |-> rs]
             ELSE IF m.drawdown_pct >= DAILY_DRAWDOWN_LIMIT_BP
             THEN [should_trigger |-> TRUE, reason |-> "Daily drawdown", row |-> m]
             ELSE [should_trigger |-> FALSE, reason |-> "", row |-> m]

\* one pass of the loop body in RiskManager.trigger_circuit_breaker: the call is made;
\* an exception of cancel_all_orders is caught and logged inside the loop
CancelOnePropagates(symbol, failing) == [called |-> TRUE, raised |-> symbol \in failing]

cancel_one(symbol, failing) == [called |-> TRUE, raised |-> FALSE]

\* the loop over settings.TRADING_PAIRS: the symbols cancel_all_orders was called
\* for, and whether an exception left the loop
RECURSIVE cancel_loop(_, _)
cancel_loop(pairs, failing) ==
    IF pairs = <<>> THEN [called |-> <<>>, raised |-> FALSE]
    ELSE LET one == cancel_one(Head(pairs), failing)
         IN  IF one.raised THEN [called |-> <<Head(pairs)>>, raised |-> TRUE]
             ELSE LET rest == cancel_loop(Tail(pairs), failing)
                  IN  [called |-> <<Head(pairs)>> \o rest.called, raised |-> rest.raised]

\* RiskManager.trigger_circuit_breaker(reason), on the RiskState row rs; failing:
\* the symbols whose cancel_all_orders raises
trigger_circuit_breaker(rs, reason, failing) ==
    LET c == cancel_loop(TRADING_PAIRS, failing)
    IN  /\ Len(cancelCalls) + Len(TRADING_PAIRS) <= MaxCancelLog
        /\ riskState' = riskstate_trigger_circuit_breaker(rs, reason, clock)
        /\ cancelCalls' = cancelCalls \o c.called
        /\ orders' = cancel_open_orders(orders,
                         {symbol \in Symbols : /\ \E k \in DOMAIN c.called : c.called[k] = symbol
                                               /\ symbol \notin failing})
        /\ wsQueue' = wsQueue \o reports_of(orders, orders', 1)
        /\ cacheStatus' = IF c.raised THEN cacheStatus
                                      ELSE set_system_status("PAUSED", reason)

\* the check_circuit_breaker task
check_circuit_breaker_task(balance, failing) ==
    LET r == check_circuit_breaker(riskState, balance)
    IN  /\ IF r.should_trigger
           THEN trigger_circuit_breaker(r.row, r.reason, failing)
           ELSE /\ riskState' = r.row
                /\ UNCHANGED <<cancelCalls, cacheStatus, orders, wsQueue>>
        /\ cbTask' = [seq |-> 1 - cbTask.seq, op |-> "check", balance |-> balance,
                      should_trigger |-> r.should_trigger,
                      failing |-> IF r.should_trigger THEN failing ELSE {}]
        /\ r.should_trigger \/ failing = {}
        /\ UNCHANGED <<positions, trades, closers, monitors, execTasks, ticks, riskWriters, call, klineFeed, clock>>

\* PauseSystemView.post / DashboardConsumer._pause_trading
pause_system(failing) ==
    /\ trigger_circuit_breaker(riskState, "Manual", failing)
    /\ cbTask' = [seq |-> 1 - cbTask.seq, op |-> "pause", balance |-> None,
                  should_trigger |-> TRUE, failing |-> failing]
    /\ UNCHANGED <<positions, trades, closers, monitors, execTasks, ticks, riskWriters, call, klineFeed, clock>>

\* ResumeSystemView.post / DashboardConsumer._resume_trading
resume_system ==
    /\ cacheStatus' = set_system_status("ACTIVE", "")
    /\ riskState' = [riskState EXCEPT !.system_status = "ACTIVE", !.pause_reason = ""]
    /\ cbTask' = [seq |-> 1 - cbTask.seq, op |-> "resume", balance |-> None,
                  should_trigger |-> FALSE, failing |-> {}]
    /\ UNCHANGED <<positions, trades, orders, cancelCalls, closers, monitors, wsQueue,
                   execTasks, ticks, riskWriters, call, klineFeed, clock>>

\* time passes
clock_tick ==
    /\ clock < MaxClock
    /\ clock' = clock + 1
    /\ UNCHANGED <<positions, trades, riskState, cacheStatus, orders, cancelCalls,
                   taskVars>>

InitBreaker ==
    /\ positions = <<>>
    /\ trades = <<>>
    /\ orders = <<>>
    /\ cancelCalls = <<>>
    /\ \E starting_balance \in {0, 400} : InitTrading(starting_balance)
    /\ NoTasks

NextBreaker ==
    \/ \E balance \in BalanceSet \cup {None}, failing \in SUBSET Symbols :
          check_circuit_breaker_task(balance, failing)
    \/ \E failing \in SUBSET Symbols : pause_system(failing)
    \/ resume_system
    \/ clock_tick

SpecBreaker == InitBreaker /\ [][NextBreaker]_vars

\* the drawdown, in basis points of the day's highest balance, that a balance shows
DrawdownBp(rs, balance) ==
    LET highest == IF balance > rs.highest_balance THEN balance ELSE rs.highest_balance
    IN  IF highest > 0 THEN ((highest - balance) * 100 * 100) \div highest ELSE 0

\* a step that is a run of the check_circuit_breaker task which read a balance
\* while the day's RiskState was not PAUSED
CheckRan ==
    /\ cbTask'.seq # cbTask.seq /\ cbTask'.op = "check" /\ cbTask'.balance # None
    /\ riskState.system_status # "PAUSED"

\* C6: when the check_circuit_breaker task observes a balance whose drawdown_pct is
\* >= daily_drawdown_limit x 100 and the day's RiskState is not already PAUSED, then
\* when it completes RiskState.system_status = PAUSED with pause_reason and paused_at
\* set and cache system:status is PAUSED; below the limit neither status is changed
C6_BreakerTripsAtLimit ==
    [][CheckRan =>
         IF DrawdownBp(riskState, cbTask'.balance) >= DAILY_DRAWDOWN_LIMIT_BP
         THEN /\ riskState'.system_status = "PAUSED"
              /\ riskState'.pause_reason # ""
              /\ riskState'.paused_at # None
              /\ cacheStatus'.status = "PAUSED"
         ELSE /\ riskState'.system_status = riskState.system_status
              /\ cacheStatus' = cacheStatus]_vars

\* a step that ran RiskManager.trigger_circuit_breaker
TriggerRan == cbTask'.seq # cbTask.seq /\ cbTask'.should_trigger

MonitorPrices == {98, 100, 103, 105}

\* monitor_positions' test of one OPEN position against the current price: the
\* reason to close it, or "" for none
close_reason_for(p, current_price) ==
    IF p.side = "BUY"
    THEN IF current_price <= p.current_stop THEN "STOP_LOSS"
         ELSE IF p.take_profit # None /\ current_price >= p.take_profit
              THEN "TAKE_PROFIT" ELSE ""
    ELSE IF current_price >= p.current_stop THEN "STOP_LOSS"
         ELSE IF p.take_profit # None /\ current_price <= p.take_profit
              THEN "TAKE_PROFIT" ELSE ""

\* positions_to_close of monitor_positions as close_position task instances, for
\* the rows from i down (newest first)
RECURSIVE positions_to_close(_, _, _)
positions_to_close(ps, i, current_prices) ==
    IF i = 0 THEN <<>>
    ELSE IF /\ ps[i].status = "OPEN"
            /\ ps[i].symbol \in DOMAIN current_prices
            /\ close_reason_for(ps[i], current_prices[ps[i].symbol]) # ""
    THEN <<NewCloser(i, close_reason_for(ps[i], current_prices[ps[i].symbol]))>>
         \o positions_to_close(ps, i - 1, current_prices)
    ELSE positions_to_close(ps, i - 1, current_prices)

\* the monitor_positions task
monitor_positions(current_prices) ==
    LET updated  == trailing_loop(positions, Len(positions), current_prices)
        to_close == positions_to_close(updated, Len(updated), current_prices)
    IN  /\ Len(closers) + Len(to_close) <= MaxCloseTasks
        /\ positions' = updated
        /\ closers' = closers \o to_close
        /\ UNCHANGED <<trades, riskState, cacheStatus, orders, cancelCalls, monitors,
                       wsQueue, execTasks, ticks, cbTask, riskWriters, call, klineFeed, clock>>

\* PositionViewSet.close
manual_close(i) ==
    /\ positions[i].status = "OPEN"
    /\ Len(closers) < MaxCloseTasks
    /\ closers' = Append(closers, NewCloser(i, "MANUAL"))
    /\ UNCHANGED <<positions, trades, riskState, cacheStatus, orders, cancelCalls,
                   monitors, wsQueue, execTasks, ticks, cbTask, riskWriters, call, klineFeed, clock>>

\* the status test close_position makes on the row it has read
ReadsAsOpen(row) == row.status = "OPEN"

\* close_position: Position.objects.get and the status test
close_read(w) ==
    /\ closers[w].pc = "queued"
    /\ closers' = [closers EXCEPT ![w] =
          IF ReadsAsOpen(positions[closers[w].position_id])
          THEN [@ EXCEPT !.pc = "place", !.position = positions[closers[w].position_id]]
          ELSE [@ EXCEPT !.pc = "already_closed"]]
    /\ UNCHANGED <<positions, trades, riskState, cacheStatus, orders, cancelCalls,
                   monitors, wsQueue, execTasks, ticks, cbTask, riskWriters, call, klineFeed, clock>>

\* the side of the exit order
exit_side(p) == IF p.side = "BUY" THEN "SELL" ELSE "BUY"

\* close_position: place_market_order succeeds
close_place(w) ==
    /\ closers[w].pc = "place"
    /\ orders' = Append(orders,
          NewOrder(closers[w].position.symbol, exit_side(closers[w].position), "MARKET",
                   closers[w].position.quantity, None,
                   [task |-> "close_position", ref |-> closers[w].position_id]))
    /\ closers' = [closers EXCEPT ![w] = [@ EXCEPT !.pc = "create",
                                                   !.order_id = Len(orders) + 1]]
    /\ UNCHANGED <<positions, trades, riskState, cacheStatus, cancelCalls, monitors,
                   wsQueue, execTasks, ticks, cbTask, riskWriters, call, klineFeed, clock>>

\* close_position: place_market_order raises; the task logs and returns an error
close_place_fails(w) ==
    /\ closers[w].pc = "place"
    /\ closers' = [closers EXCEPT ![w] = [@ EXCEPT !.pc = "error"]]
    /\ UNCHANGED <<positions, trades, riskState, cacheStatus, orders, cancelCalls,
                   monitors, wsQueue, execTasks, ticks, cbTask, riskWriters, call, klineFeed, clock>>

\* close_position: Trade.objects.create for the exit trade
close_create_trade(w) ==
    /\ closers[w].pc = "create"
    /\ trades' = Append(trades,
          NewTrade(closers[w].order_id, closers[w].position.symbol,
                   exit_side(closers[w].position), "MARKET",
                   closers[w].position.quantity, None, None))
    /\ closers' = [closers EXCEPT ![w] = [@ EXCEPT !.pc = "save",
                                                   !.exit_trade = Len(trades) + 1]]
    /\ UNCHANGED <<positions, riskState, cacheStatus, orders, cancelCalls, monitors,
                   wsQueue, execTasks, ticks, cbTask, riskWriters, call, klineFeed, clock>>

\* close_position: position.save() of the row read at the start, now CLOSED, and
\* monitor_order.delay for the exit trade
close_save(w) ==
    /\ closers[w].pc = "save"
    /\ positions' = [positions EXCEPT ![closers[w].position_id] =
          [closers[w].position EXCEPT !.exit_trade   = closers[w].exit_trade,
                                      !.status       = "CLOSED",
                                      !.close_reason = closers[w].reason,
                                      !.closed_at    = clock]]
    /\ monitors' = Append(monitors, NewMonitor(closers[w].exit_trade))
    /\ closers' = [closers EXCEPT ![w] = [@ EXCEPT !.pc = "done"]]
    /\ UNCHANGED <<trades, riskState, cacheStatus, orders, cancelCalls, wsQueue,
                   execTasks, ticks, cbTask, riskWriters, call, klineFeed, clock>>

InitClose ==
    /\ \E side \in Sides :
          /\ trades = <<FilledEntryTrade(1, TRADING_PAIRS[1], side, 1, 100)>>
          /\ positions = <<create_position_from_trade(1, trades[1])>>
          /\ orders = <<FilledEntryOrder(TRADING_PAIRS[1], side, 1, 100)>>
    /\ cancelCalls = <<>>
    /\ InitTrading(400)
    /\ NoTasks

NextClose ==
    \/ \E current_prices \in UNION {[S -> MonitorPrices] : S \in SUBSET HeldSymbols} :
          monitor_positions(current_prices)
    \/ \E i \in DOMAIN positions : manual_close(i)
    \/ \E w \in DOMAIN closers : close_read(w)
    \/ \E w \in DOMAIN closers : close_place(w)
    \/ \E w \in DOMAIN closers : close_place_fails(w)
    \/ \E w \in DOMAIN closers : close_create_trade(w)
    \/ \E w \in DOMAIN closers : close_save(w)

SpecClose == InitClose /\ [][NextClose]_vars

\* the exit orders placed on the exchange for position i
ExitOrdersOf(i) ==
    {o \in DOMAIN orders : orders[o].origin = [task |-> "close_position", ref |-> i]}

\* the exit Trade rows persisted for position i
ExitTradesOf(i) ==
    {t \in DOMAIN trades : trades[t].binance_order_id \in ExitOrdersOf(i)}

\* C3: close_position invoked twice on the same OPEN position, sequentially or
\* interleaved, places exactly one exit order and persists exactly one exit Trade
C3_OneExitPerPosition ==
    \A i \in DOMAIN positions :
        /\ Cardinality(ExitOrdersOf(i)) <= 1
        /\ Cardinality(ExitTradesOf(i)) <= 1
        /\ positions[i].status = "CLOSED" => Cardinality(ExitTradesOf(i)) = 1


(***************************************************************************)
(* SpecOrder: one entry order on the exchange, its Trade row, and the two  *)
(* writers of that row: monitor_order and the user-data stream handler     *)
(***************************************************************************)
\* the prices an order may fill at
FillPrices == {98, 100, 102}

\* whether the exchange may fill order o at fill_price: a LIMIT order fills at its
\* price or a better one
MayFillAt(o, fill_price) ==
    o.type = "LIMIT" =>
        IF o.side = "BUY" THEN fill_price <= o.price ELSE fill_price >= o.price

\* the Trade rows with this binance_order_id
TradesOfOrder(order_id) == {t \in DOMAIN trades : trades[t].binance_order_id = order_id}

\* the exchange fills q more of order o at fill_price
exchange_fill(o, q, fill_price) ==
    /\ IsWorking(orders[o])
    /\ orders[o].executedQty + q <= orders[o].origQty
    /\ MayFillAt(orders[o], fill_price)
    /\ LET filled == [orders[o] EXCEPT
              !.executedQty = @ + q,
              !.cummulativeQuoteQty = @ + q * fill_price,
              !.status = IF orders[o].executedQty + q = orders[o].origQty
                         THEN "FILLED" ELSE "PARTIALLY_FILLED"]
       IN  /\ orders' = [orders EXCEPT ![o] = filled]
           /\ wsQueue' = Append(wsQueue, executionReport(o, filled))
    /\ UNCHANGED <<positions, trades, riskState, cacheStatus, cancelCalls, closers,
                   monitors, execTasks, ticks, cbTask, riskWriters, call, klineFeed, clock>>

\* the exchange ends order o without filling the rest: cancelled on request
\* (cancel_order, cancel_all_orders), or rejected by the matching engine
exchange_end(o, status) ==
    /\ IsWorking(orders[o])
    /\ status = "REJECTED" => orders[o].status = "NEW"
    /\ orders' = [orders EXCEPT ![o] = [@ EXCEPT !.status = status]]
    /\ wsQueue' = Append(wsQueue, executionReport(o, orders'[o]))
    /\ UNCHANGED <<positions, trades, riskState, cacheStatus, cancelCalls, closers,
                   monitors, execTasks, ticks, cbTask, riskWriters, call, klineFeed, clock>>

\* _handle_order_update: the status the Trade object gets for the report's X
ws_status(current, X) ==
    IF X = "FILLED" THEN "FILLED"
    ELSE IF X = "PARTIALLY_FILLED" THEN "PARTIALLY_FILLED"
    ELSE IF X = "CANCELED" THEN "CANCELLED"
    ELSE IF X = "REJECTED" THEN "REJECTED"
    ELSE current

\* _handle_order_update up to trade.save(): Trade.objects.get by order id and the
\* assignments to the object; with no such Trade the report is logged and dropped
ws_read ==
    /\ wsQueue # <<>>
    /\ wsQueue[1].row = NoRow
    /\ LET msg == wsQueue[1]
           avg_price == IF msg.z > 0 THEN msg.Z \div msg.z ELSE 0
       IN  wsQueue' =
             IF TradesOfOrder(msg.i) = {} THEN Tail(wsQueue)
             ELSE LET trade == trades[CHOOSE t \in TradesOfOrder(msg.i) : TRUE]
                  IN  [wsQueue EXCEPT ![1] = [@ EXCEPT !.row =
                         [trade EXCEPT !.filled_quantity = msg.z,
                                       !.average_price   = avg_price,
                                       !.status          = ws_status(trade.status, msg.X)]]]
    /\ UNCHANGED <<positions, trades, riskState, cacheStatus, orders, cancelCalls,
                   closers, monitors, execTasks, ticks, cbTask, riskWriters, call, klineFeed, clock>>

\* _handle_order_update: trade.save() of the whole object
ws_save ==
    /\ wsQueue # <<>>
    /\ wsQueue[1].row # NoRow
    /\ trades' = [trades EXCEPT ![CHOOSE t \in TradesOfOrder(wsQueue[1].i) : TRUE] =
                     wsQueue[1].row]
    /\ wsQueue' = Tail(wsQueue)
    /\ UNCHANGED <<positions, riskState, cacheStatus, orders, cancelCalls, closers,
                   monitors, execTasks, ticks, cbTask, riskWriters, call, klineFeed, clock>>

\* _handle_order_update raises before it has written (the store is unreachable, or
\* the ORM refuses the call made on the event loop's thread): _start_user_data_stream
\* logs the error and goes on to the next message
ws_raises ==
    /\ wsQueue # <<>>
    /\ wsQueue[1].row = NoRow
    /\ wsQueue' = Tail(wsQueue)
    /\ UNCHANGED <<positions, trades, riskState, cacheStatus, orders, cancelCalls,
                   closers, monitors, execTasks, ticks, cbTask, riskWriters, call, klineFeed, clock>>


\* monitor_order: Trade.objects.get(id=trade_id); Trade.DoesNotExist ends the task
monitor_read(m) ==
    /\ monitors[m].pc = "queued"
    /\ monitors' = [monitors EXCEPT ![m] =
          IF monitors[m].trade_id \in DOMAIN trades
          THEN [@ EXCEPT !.pc = "poll", !.trade = trades[monitors[m].trade_id]]
          ELSE [@ EXCEPT !.pc = "error"]]
    /\ UNCHANGED <<positions, trades, riskState, cacheStatus, orders, cancelCalls,
                   closers, wsQueue, execTasks, ticks, cbTask, riskWriters, call, klineFeed, clock>>

\* monitor_order: client.get_order answers
monitor_poll(m) ==
    /\ monitors[m].pc = "poll"
    /\ monitors' = [monitors EXCEPT ![m] =
          [@ EXCEPT !.pc = "apply",
                    !.order_status = orders[monitors[m].trade.binance_order_id].status,
                    !.filled_qty = orders[monitors[m].trade.binance_order_id].executedQty]]
    /\ UNCHANGED <<positions, trades, riskState, cacheStatus, orders, cancelCalls,
                   closers, wsQueue, execTasks, ticks, cbTask, riskWriters, call, klineFeed, clock>>

\* the task instances self.retry sends: n copies of the request with retries + 1
retry_instances(mon, n) ==
    [k \in 1..n |-> [NewMonitor(mon.trade_id) EXCEPT !.retries = mon.retries + 1]]

\* monitor_order leaves through self.retry: with retries left, calls of self.retry
\* each send a new instance before raising; with none left the task fails
monitor_retry(m, calls) ==
    IF monitors[m].retries < MONITOR_MAX_RETRIES
    THEN /\ Len(monitors) + calls <= MaxMonitors
         /\ monitors' = [monitors EXCEPT ![m] = [@ EXCEPT !.pc = "retry"]]
                           \o retry_instances(monitors[m], calls)
    ELSE monitors' = [monitors EXCEPT ![m] = [@ EXCEPT !.pc = "failed"]]

\* monitor_order: client.get_order raises; the handler at the end calls self.retry
monitor_poll_fails(m) ==
    /\ monitors[m].pc = "poll"
    /\ monitor_retry(m, 1)
    /\ UNCHANGED <<positions, trades, riskState, cacheStatus, orders, cancelCalls,
                   closers, wsQueue, execTasks, ticks, cbTask, riskWriters, call, klineFeed, clock>>

\* avg_price of monitor_order, Decimal(order.get('avgPrice', '0') or
\* order.get('price', '0')): the order the spot client returns has no avgPrice
\* key, and the default '0' is a non-empty string, so the result is 0
monitor_avg_price(order_status) == 0

\* Trade.calculate_slippage: the slippage columns it writes
calculate_slippage(trade) ==
    IF trade.expected_price \notin {None, 0} /\ trade.average_price \notin {None, 0}
    THEN [trade EXCEPT
            !.slippage = trade.average_price - trade.expected_price,
            !.slippage_pct =
                ((trade.average_price - trade.expected_price) * 100 * 100)
                    \div trade.expected_price]
    ELSE trade

\* a Trade object without the reverse manager of Position.entry_trade
LacksPositionsManager(trade) == FALSE

\* hasattr(trade, 'positions'): positions is the reverse manager of
\* Position.entry_trade, an attribute every Trade object has
hasattr_positions(trade) == TRUE

\* the Trade.Status monitor_order assigns for a terminal exchange status
monitor_status(order_status) ==
    IF order_status = "CANCELED" THEN "CANCELLED" ELSE order_status

\* monitor_order from the assignments after get_order to the end
monitor_apply(m) ==
    /\ monitors[m].pc = "apply"
    /\ LET mon       == monitors[m]
           avg_price == monitor_avg_price(mon.order_status)
           trade     == [mon.trade EXCEPT
                            !.filled_quantity = mon.filled_qty,
                            !.average_price = IF avg_price > 0 THEN avg_price
                                              ELSE mon.trade.requested_price]
           filled    == calculate_slippage(
                            [trade EXCEPT !.status = "FILLED",
                                          !.filled_at = clock,
                                          !.execution_price = avg_price])
       IN  IF mon.order_status = "FILLED"
           THEN /\ trades' = [trades EXCEPT ![mon.trade_id] = filled]
                /\ positions' =
                      IF filled.side \in Sides /\ ~hasattr_positions(filled)
                      THEN Append(positions, create_position_from_trade(mon.trade_id, filled))
                      ELSE positions
                /\ riskState' = [riskState EXCEPT !.total_trades = @ + 1]
                /\ monitors' = [monitors EXCEPT ![m] = [@ EXCEPT !.pc = "done"]]
           ELSE IF mon.order_status \in {"CANCELED", "REJECTED"}
           THEN /\ trades' = [trades EXCEPT ![mon.trade_id] =
                                 [trade EXCEPT !.status = monitor_status(mon.order_status)]]
                /\ monitors' = [monitors EXCEPT ![m] = [@ EXCEPT !.pc = "done"]]
                /\ UNCHANGED <<positions, riskState>>
           ELSE \* PARTIALLY_FILLED, or still pending: self.retry raises before
                \* trade.save(), and the handler at the end calls self.retry again
                /\ monitor_retry(m, 2)
                /\ UNCHANGED <<positions, trades, riskState>>
    /\ UNCHANGED <<cacheStatus, orders, cancelCalls, closers, wsQueue, execTasks,
                   ticks, cbTask, riskWriters, call, klineFeed, clock>>

\* execute_trade has placed a LIMIT order of 2, created its Trade and enqueued
\* monitor_order; the order's NEW report is on the stream
InitOrder ==
    /\ \E side \in Sides, retries \in {0, MONITOR_MAX_RETRIES} :
          /\ orders = <<NewOrder(TRADING_PAIRS[1], side, "LIMIT", 2, 100,
                                 [task |-> "execute_trade", ref |-> 1])>>
          /\ trades = <<NewTrade(1, TRADING_PAIRS[1], side, "LIMIT", 2, 100, 100)>>
          /\ monitors = <<[NewMonitor(1) EXCEPT !.retries = retries]>>
          /\ wsQueue = <<executionReport(1, orders[1])>>
    /\ positions = <<>>
    /\ cancelCalls = <<>>
    /\ InitTrading(400)
    /\ closers = <<>>
    /\ execTasks = <<>>
    /\ ticks = <<>>
    /\ cbTask = CbIdle
    /\ riskWriters = <<>>
    /\ klineFeed = NoFeed
    /\ call = NoCall

NextOrder ==
    \/ \E o \in DOMAIN orders, q \in Quantities, fill_price \in FillPrices :
          exchange_fill(o, q, fill_price)
    \/ \E o \in DOMAIN orders, status \in {"CANCELED", "REJECTED"} : exchange_end(o, status)
    \/ ws_read
    \/ ws_save
    \/ ws_raises
    \/ \E m \in DOMAIN monitors : monitor_read(m)
    \/ \E m \in DOMAIN monitors : monitor_poll(m)
    \/ \E m \in DOMAIN monitors : monitor_poll_fails(m)
    \/ \E m \in DOMAIN monitors : monitor_apply(m)
    \/ clock_tick

SpecOrder == InitOrder /\ [][NextOrder]_vars

\* the terminal statuses of a Trade
TerminalStatuses == {"FILLED", "CANCELLED", "REJECTED"}

\* a step of the status graph PENDING -> PARTIALLY_FILLED* -> terminal
StatusStepAllowed(old, new) ==
    \/ new = old
    \/ old \in {"PENDING", "PARTIALLY_FILLED"} /\ new \in {"PARTIALLY_FILLED"} \cup TerminalStatuses

\* C4: every write to a Trade moves its persisted status along PENDING ->
\* PARTIALLY_FILLED* -> {FILLED, CANCELLED, REJECTED}, and a persisted terminal
\* status is never changed by a later write
C4_StatusGraph ==
    [][\A t \in DOMAIN trades :
          StatusStepAllowed(trades[t].status, trades'[t].status)]_vars


(***************************************************************************)
(* SpecPipeline: the beat's strategy_tick, the execute_trade tasks it      *)
(* enqueues, and the circuit breaker                                       *)
(***************************************************************************)
\* a strategy_tick task instance waiting for a worker
NewTick(retries) == [pc |-> "queued", retries |-> retries]

\* execute_trade.delay(signal.to_dict()): a task instance waiting for a worker;
\* outcome is how its run ended
NewExec(signal, retries) ==
    [ signal |-> signal, retries |-> retries, pc |-> "queued", order_id |-> None,
      outcome |-> "" ]

\* the beat sends strategy_tick (schedule 1.0), whatever earlier instances do
beat_strategy_tick ==
    /\ Len(ticks) < MaxTicks
    /\ ticks' = Append(ticks, NewTick(0))
    /\ UNCHANGED <<positions, trades, riskState, cacheStatus, orders, cancelCalls,
                   closers, monitors, wsQueue, execTasks, cbTask, riskWriters, call, klineFeed, clock>>

\* strategy_tick up to the status test: a worker starts the instance; a system
\* that is not ACTIVE ends it with status paused
tick_start(k) ==
    /\ ticks[k].pc = "queued"
    /\ ticks' = [ticks EXCEPT ![k] =
          [@ EXCEPT !.pc = IF is_trading_active THEN "running" ELSE "paused"]]
    /\ UNCHANGED <<positions, trades, riskState, cacheStatus, orders, cancelCalls,
                   closers, monitors, wsQueue, execTasks, cbTask, riskWriters, call, klineFeed, clock>>

\* RiskManager.is_trading_allowed, its cache and store reads succeeding
is_trading_allowed ==
    /\ is_trading_active
    /\ riskState.system_status \notin {"PAUSED", "EMERGENCY_STOP"}

\* the execute_trade instances strategy_tick enqueues for the valid signals, in
\* the order of TRADING_PAIRS; signals maps each symbol with a signal to its action
enqueued_for(signals, first_id) ==
    LET syms == SelectSeq(TRADING_PAIRS, LAMBDA symbol : symbol \in DOMAIN signals)
    IN  [k \in 1..Len(syms) |->
            NewExec([ id |-> first_id + k - 1, symbol |-> syms[k],
                      action |-> signals[syms[k]], quantity |-> 1,
                      entry_price |-> 100 ], 0)]

\* strategy_tick from evaluate_all_symbols to its return: evaluate_symbol gives no
\* signal while trading is not allowed; each valid signal is handed to execute_trade
tick_evaluate(k, signals) ==
    /\ ticks[k].pc = "running"
    /\ ~is_trading_allowed => signals = <<>>
    /\ Len(execTasks) + Cardinality(DOMAIN signals) <= MaxExecTasks
    /\ execTasks' = execTasks \o enqueued_for(signals, Len(execTasks) + 1)
    /\ ticks' = [ticks EXCEPT ![k] = [@ EXCEPT !.pc = "done"]]
    /\ UNCHANGED <<positions, trades, riskState, cacheStatus, orders, cancelCalls,
                   closers, monitors, wsQueue, cbTask, riskWriters, call, klineFeed, clock>>

\* strategy_tick raises (RedisCache() cannot connect, the coordinator fails): the
\* handler calls self.retry, which sends a new instance while retries are left
tick_fails(k) ==
    /\ ticks[k].pc = "running"
    /\ IF ticks[k].retries < TICK_MAX_RETRIES
       THEN /\ Len(ticks) < MaxTicks
            /\ ticks' = Append([ticks EXCEPT ![k] = [@ EXCEPT !.pc = "retry"]],
                               NewTick(ticks[k].retries + 1))
       ELSE ticks' = [ticks EXCEPT ![k] = [@ EXCEPT !.pc = "failed"]]
    /\ UNCHANGED <<positions, trades, riskState, cacheStatus, orders, cancelCalls,
                   closers, monitors, wsQueue, execTasks, cbTask, riskWriters, call, klineFeed, clock>>

\* the side of the order execute_trade places for the signal's action
order_side(action) == IF action \in {"BUY", "CLOSE_SHORT"} THEN "BUY" ELSE "SELL"

\* execute_trade: client.place_limit_order succeeds
exec_place(e) ==
    /\ execTasks[e].pc = "queued"
    /\ orders' = Append(orders,
          NewOrder(execTasks[e].signal.symbol, order_side(execTasks[e].signal.action),
                   "LIMIT", execTasks[e].signal.quantity, execTasks[e].signal.entry_price,
                   [task |-> "execute_trade", ref |-> execTasks[e].signal.id]))
    /\ execTasks' = [execTasks EXCEPT ![e] = [@ EXCEPT !.pc = "placed",
                                                       !.order_id = Len(orders) + 1]]
    /\ UNCHANGED <<positions, trades, riskState, cacheStatus, cancelCalls, closers,
                   monitors, wsQueue, ticks, cbTask, riskWriters, call, klineFeed, clock>>

\* execute_trade's handler for any exception: self.retry(exc=e, countdown=5) sends
\* the signal again while retries are left, then the task fails
exec_retry(e, outcome) ==
    IF execTasks[e].retries < EXEC_MAX_RETRIES
    THEN /\ Len(execTasks) < MaxExecTasks
         /\ execTasks' = Append(
               [execTasks EXCEPT ![e] = [@ EXCEPT !.pc = "retry", !.outcome = outcome]],
               NewExec(execTasks[e].signal, execTasks[e].retries + 1))
    ELSE execTasks' = [execTasks EXCEPT ![e] =
                          [@ EXCEPT !.pc = "failed", !.outcome = outcome]]

\* execute_trade: client.place_limit_order raises; outcome is "rejected" for an
\* order the exchange refuses (4xx), "transient" for a network error or 5xx
exec_place_fails(e, outcome) ==
    /\ execTasks[e].pc = "queued"
    /\ exec_retry(e, outcome)
    /\ UNCHANGED <<positions, trades, riskState, cacheStatus, orders, cancelCalls,
                   closers, monitors, wsQueue, ticks, cbTask, riskWriters, call, klineFeed, clock>>

\* execute_trade: Trade.objects.create and monitor_order.delay
exec_persist(e) ==
    /\ execTasks[e].pc = "placed"
    /\ trades' = Append(trades,
          NewTrade(execTasks[e].order_id, execTasks[e].signal.symbol,
                   order_side(execTasks[e].signal.action), "LIMIT",
                   execTasks[e].signal.quantity, execTasks[e].signal.entry_price,
                   execTasks[e].signal.entry_price))
    /\ monitors' = Append(monitors, NewMonitor(Len(trades) + 1))
    /\ execTasks' = [execTasks EXCEPT ![e] = [@ EXCEPT !.pc = "done",
                                                       !.outcome = "success"]]
    /\ UNCHANGED <<positions, riskState, cacheStatus, orders, cancelCalls, closers,
                   wsQueue, ticks, cbTask, riskWriters, call, klineFeed, clock>>

\* execute_trade: Trade.objects.create raises (the store is down, a column
\* overflows); the order stays on the exchange and the handler retries
exec_persist_fails(e) ==
    /\ execTasks[e].pc = "placed"
    /\ exec_retry(e, "db_error")
    /\ UNCHANGED <<positions, trades, riskState, cacheStatus, orders, cancelCalls,
                   closers, monitors, wsQueue, ticks, cbTask, riskWriters, call, klineFeed, clock>>

\* init_trading has run; nothing is in flight
InitPipeline ==
    /\ positions = <<>>
    /\ trades = <<>>
    /\ orders = <<>>
    /\ cancelCalls = <<>>
    /\ InitTrading(400)
    /\ NoTasks

NextPipeline ==
    \/ beat_strategy_tick
    \/ \E k \in DOMAIN ticks : tick_start(k)
    \/ \E k \in DOMAIN ticks, signals \in UNION {[S -> Sides] : S \in SUBSET Symbols} :
          tick_evaluate(k, signals)
    \/ \E k \in DOMAIN ticks : tick_fails(k)
    \/ \E e \in DOMAIN execTasks : exec_place(e)
    \/ \E e \in DOMAIN execTasks, outcome \in {"rejected", "transient"} :
          exec_place_fails(e, outcome)
    \/ \E e \in DOMAIN execTasks : exec_persist(e)
    \/ \E e \in DOMAIN execTasks : exec_persist_fails(e)
    \/ pause_system({})
    \/ resume_system

SpecPipeline == InitPipeline /\ [][NextPipeline]_vars

\* the orders execute_trade has placed
EntryOrders == {o \in DOMAIN orders : orders[o].origin.task = "execute_trade"}

\* C5: while the cache's system:status is PAUSED no new entry order is placed on
\* the exchange, not even by an execute_trade task enqueued before the trip
C5_NoEntryOrderWhilePaused ==
    [][cacheStatus.status = "PAUSED" =>
          {o \in DOMAIN orders' : orders'[o].origin.task = "execute_trade"} = EntryOrders]_vars

\* C8: at most one strategy_tick instance is executing at any time
C8_OneTickAtATime ==
    Cardinality({k \in DOMAIN ticks : ticks[k].pc = "running"}) <= 1

\* C9: every order execute_trade has placed has a persisted Trade row, once the
\* instance that placed it is past Trade.objects.create
C9_OrderHasTrade ==
    \A o \in EntryOrders :
        \/ TradesOfOrder(o) # {}
        \/ \E e \in DOMAIN execTasks : execTasks[e].order_id = o /\ execTasks[e].pc = "placed"

\* C10: when the exchange rejects the placement, no Trade row is persisted and the
\* signal is not sent to execute_trade again
C10_RejectionNotRetried ==
    [][\A e \in DOMAIN execTasks :
          (execTasks[e].pc = "queued" /\ execTasks'[e].outcome = "rejected")
              => trades' = trades /\ Len(execTasks') = Len(execTasks)]_vars


(***************************************************************************)
(* Further properties of SpecOrder                                         *)
(***************************************************************************)
\* a step in which monitor instance m, having polled order_status, schedules the
\* next poll
SchedulesNextPoll(m, order_status) ==
    /\ monitors[m].pc = "apply"
    /\ monitors[m].order_status = order_status
    /\ monitors'[m].pc = "retry"

\* C11: when monitor_order has polled PARTIALLY_FILLED, the Trade's status
\* PARTIALLY_FILLED and the polled filled_quantity and average_price are persisted
\* by the time the next poll is scheduled
C11_PartialFillPersisted ==
    [][\A m \in DOMAIN monitors :
          SchedulesNextPoll(m, "PARTIALLY_FILLED") =>
              /\ trades'[monitors[m].trade_id].status = "PARTIALLY_FILLED"
              /\ trades'[monitors[m].trade_id].filled_quantity = monitors[m].filled_qty
              /\ trades'[monitors[m].trade_id].average_price # None]_vars


\* the Position rows whose entry trade is trade t
PositionsOf(ps, t) == {i \in DOMAIN ps : ps[i].entry_trade = t}

\* a step in which monitor instance m, having polled FILLED, completes
RecordsFill(m) ==
    /\ monitors[m].pc = "apply"
    /\ monitors[m].order_status = "FILLED"
    /\ monitors'[m].pc = "done"

\* C12: when monitor_order observes FILLED for an entry Trade that has no Position
\* yet, the Trade becomes FILLED with filled_at stamped and exactly one Position is
\* created for it: OPEN, on the trade's side, for the filled quantity, with
\* initial_stop = current_stop = the Risk Manager's stop for the entry price
C12_FillCreatesPosition ==
    [][\A m \in DOMAIN monitors :
          (RecordsFill(m) /\ PositionsOf(positions, monitors[m].trade_id) = {}) =>
              LET t == monitors[m].trade_id
              IN  /\ trades'[t].status = "FILLED"
                  /\ trades'[t].filled_at # None
                  /\ Cardinality(PositionsOf(positions', t)) = 1
                  /\ \A i \in PositionsOf(positions', t) :
                        /\ positions'[i].status = "OPEN"
                        /\ positions'[i].side = trades'[t].side
                        /\ positions'[i].quantity = trades'[t].filled_quantity
                        /\ positions'[i].initial_stop =
                              get_stop_loss_price(positions'[i].entry_price, trades'[t].side)
                        /\ positions'[i].current_stop = positions'[i].initial_stop]_vars


(***************************************************************************)
(* SpecMonitorFair: monitor_order as the only writer of the Trade (the      *)
(* stream handler drops its reports), no failing exchange call, every      *)
(* instance that can take a step eventually taking it, and the first       *)
(* instance on its last retries, the other instances of the request having *)
(* ended                                                                   *)
(***************************************************************************)
InitMonitorFair ==
    /\ \E side \in Sides, retries \in {MONITOR_MAX_RETRIES - 1, MONITOR_MAX_RETRIES} :
          /\ orders = <<NewOrder(TRADING_PAIRS[1], side, "LIMIT", 2, 100,
                                 [task |-> "execute_trade", ref |-> 1])>>
          /\ trades = <<NewTrade(1, TRADING_PAIRS[1], side, "LIMIT", 2, 100, 100)>>
          /\ monitors = <<[NewMonitor(1) EXCEPT !.retries = retries]>>
          /\ wsQueue = <<executionReport(1, orders[1])>>
    /\ positions = <<>>
    /\ cancelCalls = <<>>
    /\ InitTrading(400)
    /\ closers = <<>>
    /\ execTasks = <<>>
    /\ ticks = <<>>
    /\ cbTask = CbIdle
    /\ riskWriters = <<>>
    /\ klineFeed = NoFeed
    /\ call = NoCall

NextMonitorFair ==
    \/ \E o \in DOMAIN orders, q \in Quantities, fill_price \in FillPrices :
          exchange_fill(o, q, fill_price)
    \/ \E o \in DOMAIN orders, status \in {"CANCELED", "REJECTED"} : exchange_end(o, status)
    \/ ws_raises
    \/ \E m \in DOMAIN monitors : monitor_read(m)
    \/ \E m \in DOMAIN monitors : monitor_poll(m)
    \/ \E m \in DOMAIN monitors : monitor_apply(m)
    \/ clock_tick

SpecMonitorFair ==
    /\ InitMonitorFair
    /\ [][NextMonitorFair]_vars
    /\ WF_vars(\E m \in DOMAIN monitors : monitor_read(m))
    /\ WF_vars(\E m \in DOMAIN monitors : monitor_poll(m))
    /\ WF_vars(\E m \in DOMAIN monitors : monitor_apply(m))

\* the exchange order of Trade 1 has reached a terminal state
OrderIsTerminal == orders[trades[1].binance_order_id].status \in {"FILLED", "CANCELED", "REJECTED"}

\* C14: once the exchange order of a Trade is terminal, the corresponding terminal
\* status is eventually persisted on the Trade, however many polls came before
C14_TerminalStatusPersisted ==
    OrderIsTerminal ~>
        (trades[1].status = monitor_status(orders[trades[1].binance_order_id].status))


\* C15: every Trade persisted with status FILLED and a non-null expected_price has
\* slippage = average_price - expected_price and slippage_pct = slippage /
\* expected_price x 100 (in basis points here), whichever writer recorded the fill
C15_SlippageRecorded ==
    \A t \in DOMAIN trades :
        (trades[t].status = "FILLED" /\ trades[t].expected_price # None) =>
            /\ trades[t].slippage = trades[t].average_price - trades[t].expected_price
            /\ trades[t].slippage_pct =
                  (trades[t].slippage * 100 * 100) \div trades[t].expected_price


\* C16: across the writes of monitor_order and _handle_order_update the persisted
\* filled_quantity of a Trade never exceeds requested_quantity and never decreases
C16_FilledQuantityMonotone ==
    [][\A t \in DOMAIN trades :
          /\ trades'[t].filled_quantity <= trades'[t].requested_quantity
          /\ trades'[t].filled_quantity >= trades[t].filled_quantity]_vars

(***************************************************************************)
(* Further properties of SpecBreaker                                       *)
(***************************************************************************)
\* highest_balance >= current_balance and drawdown_pct within [0, 100] %
BalanceInvariant(rs) ==
    /\ rs.highest_balance >= rs.current_balance
    /\ rs.drawdown_pct >= 0
    /\ rs.drawdown_pct <= 100 * 100

\* C17: after any sequence of update_balance calls with non-negative balances,
\* also on a RiskState created with zero balances, highest_balance >=
\* current_balance and 0 <= drawdown_pct <= 100, for the persisted row and for
\* the object any further call leaves in memory
C17_BalanceInvariant ==
    /\ BalanceInvariant(riskState)
    /\ \A balance \in BalanceSet : BalanceInvariant(update_balance_object(riskState, balance))

\* C17 witness: a RiskState created with zero balances has been through
\* update_balance calls that raised its high-water mark and then lost part of it
C17_Witness ==
    /\ cbTask.op = "check"
    /\ riskState.starting_balance = 0
    /\ riskState.highest_balance > riskState.current_balance
    /\ riskState.current_balance > 0
    /\ riskState.drawdown_pct > 0


(***************************************************************************)
(* SpecRisk: the writers of today's RiskState row, each split at the point  *)
(* between RiskState.get_or_create_today() and save()                       *)
(***************************************************************************)
RiskHandlers == {"monitor_order", "resume", "check_circuit_breaker"}

\* RiskState.get_or_create_today() in a handler: the row as stored at that moment
NewRiskWriter(handler) == [handler |-> handler, row |-> riskState]

RemoveAt(seq, i) == SubSeq(seq, 1, i - 1) \o SubSeq(seq, i + 1, Len(seq))

\* monitor_order, FILLED branch: risk_state = RiskState.get_or_create_today()
monitor_risk_load ==
    /\ Len(riskWriters) < MaxRiskWriters
    /\ riskWriters' = Append(riskWriters, NewRiskWriter("monitor_order"))
    /\ UNCHANGED <<positions, trades, riskState, cacheStatus, orders, cancelCalls,
                   closers, monitors, wsQueue, execTasks, ticks, cbTask, call, klineFeed, clock>>

\* monitor_order, FILLED branch: risk_state.total_trades += 1; risk_state.save()
monitor_risk_save(w) ==
    /\ riskWriters[w].handler = "monitor_order"
    /\ riskWriters[w].row.total_trades < MaxTotalTrades
    /\ riskState' = [riskWriters[w].row EXCEPT !.total_trades = @ + 1]
    /\ riskWriters' = RemoveAt(riskWriters, w)
    /\ UNCHANGED <<positions, trades, cacheStatus, orders, cancelCalls,
                   closers, monitors, wsQueue, execTasks, ticks, cbTask, call, klineFeed, clock>>

\* ResumeSystemView.post / DashboardConsumer._resume_trading up to
\* get_or_create_today(): the cache is set ACTIVE, then the row is loaded
resume_load ==
    /\ Len(riskWriters) < MaxRiskWriters
    /\ cacheStatus' = set_system_status("ACTIVE", "")
    /\ riskWriters' = Append(riskWriters, NewRiskWriter("resume"))
    /\ UNCHANGED <<positions, trades, riskState, orders, cancelCalls,
                   closers, monitors, wsQueue, execTasks, ticks, cbTask, call, klineFeed, clock>>

\* the resume handlers: system_status = ACTIVE; pause_reason = ''; save()
resume_save(w) ==
    /\ riskWriters[w].handler = "resume"
    /\ riskState' = [riskWriters[w].row EXCEPT !.system_status = "ACTIVE",
                                               !.pause_reason = ""]
    /\ riskWriters' = RemoveAt(riskWriters, w)
    /\ UNCHANGED <<positions, trades, cacheStatus, orders, cancelCalls,
                   closers, monitors, wsQueue, execTasks, ticks, cbTask, call, klineFeed, clock>>

\* RiskManager.check_circuit_breaker: risk_state = RiskState.get_or_create_today()
breaker_load ==
    /\ Len(riskWriters) < MaxRiskWriters
    /\ riskWriters' = Append(riskWriters, NewRiskWriter("check_circuit_breaker"))
    /\ UNCHANGED <<positions, trades, riskState, cacheStatus, orders, cancelCalls,
                   closers, monitors, wsQueue, execTasks, ticks, cbTask, call, klineFeed, clock>>

\* whether check_circuit_breaker, holding the object rs, gets as far as a
\* successful save in update_balance
breaker_saves(rs, balance) ==
    /\ rs.system_status # "PAUSED"
    /\ balance # None
    /\ ~RiskStateSaveRaises(update_balance_object(rs, balance))

\* the rest of the check_circuit_breaker task: the balance is fetched,
\* update_balance saves the loaded object, and when the check says so
\* trigger_circuit_breaker loads the row again and pauses
breaker_finish(w, balance) ==
    LET r == check_circuit_breaker(riskWriters[w].row, balance)
        stored == IF breaker_saves(riskWriters[w].row, balance) THEN r.row ELSE riskState
    IN  /\ riskWriters[w].handler = "check_circuit_breaker"
        /\ IF r.should_trigger
           THEN trigger_circuit_breaker(stored, r.reason, {})
           ELSE /\ riskState' = stored
                /\ UNCHANGED <<cancelCalls, cacheStatus, orders, wsQueue>>
        /\ cbTask' = [seq |-> 1 - cbTask.seq, op |-> "check", balance |-> balance,
                      should_trigger |-> r.should_trigger, failing |-> {}]
        /\ riskWriters' = RemoveAt(riskWriters, w)
        /\ UNCHANGED <<positions, trades, closers, monitors, execTasks, ticks, call, klineFeed, clock>>

\* free USDT balances the check_circuit_breaker task may read in SpecRisk
RiskBalances == {380, 420}

InitRisk ==
    /\ positions = <<>>
    /\ trades = <<>>
    /\ orders = <<>>
    /\ cancelCalls = <<>>
    /\ InitTrading(400)
    /\ NoTasks

NextRisk ==
    \/ monitor_risk_load
    \/ \E w \in DOMAIN riskWriters : monitor_risk_save(w)
    \/ resume_load
    \/ \E w \in DOMAIN riskWriters : resume_save(w)
    \/ breaker_load
    \/ \E w \in DOMAIN riskWriters : \E balance \in RiskBalances : breaker_finish(w, balance)

SpecRisk == InitRisk /\ [][NextRisk]_vars

\* C18: within one day the persisted RiskState.highest_balance never decreases,
\* under any interleaving of check_circuit_breaker, monitor_order's read /
\* total_trades += 1 / whole-row save, and the resume handlers' whole-row save
C18_HighestBalanceMonotone ==
    [][riskState'.highest_balance >= riskState.highest_balance]_vars


(***************************************************************************)
(* Further properties of SpecClose                                         *)
(***************************************************************************)
\* the close_position instance w is between its read of the Position and its
\* save of it: inside the exit path
InExitPath(w) == closers[w].pc \in {"place", "create", "save"}

\* C19: the exit path (and the trailing-stop update) for positions of one symbol
\* is executed by at most one worker at a time
C19_ExitPathExclusive ==
    \A w1, w2 \in DOMAIN closers :
        ( /\ InExitPath(w1)
          /\ InExitPath(w2)
          /\ closers[w1].position.symbol = closers[w2].position.symbol ) => w1 = w2


(***************************************************************************)
(* SpecEvaluate: StrategyCoordinator.evaluate_symbol, called by             *)
(* strategy_tick for every symbol, next to the trailing-stop updates        *)
(***************************************************************************)
\* evaluate_symbol returned None
NoSignal == [action |-> "NONE"]

\* the prices _get_current_price may return in this specification (None: no price)
EvaluatePrices == MonitorPrices \cup {None}

\* what the entry analysis (VPA, EMA, 3D confluence) concludes for a symbol
AnalysisOutcomes == {"NONE", "BUY", "SELL"}

\* Position.objects.filter(symbol=symbol, status=OPEN).first(): the newest such
\* row (Position.Meta.ordering), 0 for none
first_open_position(ps, symbol) ==
    LET open == {i \in DOMAIN ps : ps[i].symbol = symbol /\ ps[i].status = "OPEN"}
    IN  IF open = {} THEN 0 ELSE CHOOSE i \in open : \A j \in open : j <= i

\* StrategyCoordinator._create_exit_signal
create_exit_signal(symbol, position, current_price, action) ==
    [ symbol |-> symbol, action |-> action, entry_price |-> current_price,
      quantity |-> position.quantity ]

\* StrategyCoordinator._evaluate_exit after update_unrealized_pnl: the signal
evaluate_exit_signal(symbol, position, current_price) ==
    IF position.side = "BUY"
    THEN IF current_price <= position.current_stop
         THEN create_exit_signal(symbol, position, current_price, "CLOSE_LONG")
         ELSE IF position.take_profit # None /\ current_price >= position.take_profit
         THEN create_exit_signal(symbol, position, current_price, "CLOSE_LONG")
         ELSE NoSignal
    ELSE IF current_price >= position.current_stop
         THEN create_exit_signal(symbol, position, current_price, "CLOSE_SHORT")
         ELSE IF position.take_profit # None /\ current_price <= position.take_profit
         THEN create_exit_signal(symbol, position, current_price, "CLOSE_SHORT")
         ELSE NoSignal

\* the entry branch of evaluate_symbol: the signal the analysis leads to
entry_signal(symbol, current_price, analysis) ==
    IF analysis = "NONE" \/ current_price = None THEN NoSignal
    ELSE [ symbol |-> symbol, action |-> analysis, entry_price |-> current_price,
           quantity |-> 1 ]

\* evaluate_symbol without the test for an existing position
EvaluateSymbolIgnoresPosition(ps, symbol, current_price, analysis) ==
    [ signal |-> entry_signal(symbol, current_price, analysis), positions |-> ps ]

\* StrategyCoordinator.evaluate_symbol(symbol) on the Position rows ps: the signal
\* it returns and the rows afterwards. Any exception inside gives None.
evaluate_symbol(ps, symbol, current_price, analysis) ==
    LET i == first_open_position(ps, symbol)
    IN  IF ~is_trading_allowed THEN [signal |-> NoSignal, positions |-> ps]
        ELSE IF i = 0
        THEN [signal |-> entry_signal(symbol, current_price, analysis), positions |-> ps]
        ELSE IF current_price = None THEN [signal |-> NoSignal, positions |-> ps]
        ELSE IF PctOverflows(update_unrealized_pnl(ps[i], current_price).unrealized_pnl_pct)
        THEN [signal |-> NoSignal, positions |-> ps]
        ELSE [ signal    |-> evaluate_exit_signal(symbol,
                                evaluate_exit_row(ps[i], current_price), current_price),
               positions |-> [ps EXCEPT ![i] = evaluate_exit_row(ps[i], current_price)] ]

\* strategy_tick for one symbol: evaluate_symbol, and execute_trade.delay for the
\* signal it returned
strategy_evaluate(symbol, current_price, analysis) ==
    LET r == evaluate_symbol(positions, symbol, current_price, analysis)
    IN  /\ positions' = r.positions
        /\ IF r.signal = NoSignal
           THEN UNCHANGED execTasks
           ELSE /\ Len(execTasks) < MaxExecTasks
                /\ execTasks' = Append(execTasks,
                      NewExec([ id |-> Len(execTasks) + 1, symbol |-> r.signal.symbol,
                                action |-> r.signal.action,
                                quantity |-> r.signal.quantity,
                                entry_price |-> r.signal.entry_price ], 0))
        /\ UNCHANGED <<trades, riskState, cacheStatus, orders, cancelCalls, closers,
                       monitors, wsQueue, ticks, cbTask, riskWriters, call, klineFeed, clock>>

InitEvaluate ==
    /\ \E side \in Sides, qty \in Quantities :
          /\ trades = <<FilledEntryTrade(1, TRADING_PAIRS[1], side, qty, 100)>>
          /\ positions = <<create_position_from_trade(1, trades[1])>>
          /\ orders = <<FilledEntryOrder(TRADING_PAIRS[1], side, qty, 100)>>
    /\ cancelCalls = <<>>
    /\ InitTrading(400)
    /\ NoTasks

NextEvaluate ==
    \/ \E symbol \in Symbols, current_price \in EvaluatePrices,
          analysis \in AnalysisOutcomes : strategy_evaluate(symbol, current_price, analysis)
    \/ \E current_prices \in UNION {[S -> MonitorPrices] : S \in SUBSET HeldSymbols} :
          update_trailing_stops(current_prices)

SpecEvaluate == InitEvaluate /\ [][NextEvaluate]_vars

\* the signal is an exit of position p: CLOSE_LONG for a long, CLOSE_SHORT for a
\* short, for the whole quantity
IsExitOf(signal, p) ==
    /\ signal.action = (IF p.side = "BUY" THEN "CLOSE_LONG" ELSE "CLOSE_SHORT")
    /\ signal.quantity = p.quantity

\* C20: for a symbol with an OPEN position evaluate_symbol returns either nothing
\* or a CLOSE_LONG / CLOSE_SHORT signal matching the position's side with quantity
\* = position.quantity, never BUY or SELL; stated for every call that can be made
\* in the current state and for every signal already handed to execute_trade
C20_NoEntryWhileOpen ==
    /\ \A symbol \in Symbols, current_price \in EvaluatePrices, analysis \in AnalysisOutcomes :
          LET i == first_open_position(positions, symbol)
              r == evaluate_symbol(positions, symbol, current_price, analysis)
          IN  i # 0 => (r.signal = NoSignal \/ IsExitOf(r.signal, positions[i]))
    /\ \A e \in DOMAIN execTasks :
          LET i == first_open_position(positions, execTasks[e].signal.symbol)
          IN  i # 0 => IsExitOf(execTasks[e].signal, positions[i])

\* C20 witness: evaluate_symbol has returned an exit signal for the symbol of the
\* OPEN position, and would return nothing for it at another price although the
\* analysis asks for an entry
C20_Witness ==
    /\ \E e \in DOMAIN execTasks :
          /\ execTasks[e].signal.action \in {"CLOSE_LONG", "CLOSE_SHORT"}
          /\ first_open_position(positions, execTasks[e].signal.symbol) # 0
          /\ execTasks[e].signal.quantity = 2
    /\ \E current_price \in MonitorPrices :
          evaluate_symbol(positions, TRADING_PAIRS[1], current_price, "BUY").signal = NoSignal


(***************************************************************************)
(* SpecSignal: StrategyCoordinator._generate_signal for a symbol without a  *)
(* position, and what strategy_tick does with the signal                    *)
(***************************************************************************)
\* settings.EMA_DEVIATION_THRESHOLD = 0.005, deviations counted in thousandths
EMA_DEVIATION_THRESHOLD == 5

\* the EMA deviations of this specification, in thousandths
EmaDeviations == {0 - 5, 0 - 4, 0, 4, 5}

\* the VPASignal fields _generate_signal reads
VpaSignals ==
    [is_valid_signal : BOOLEAN, direction : {"BULLISH", "BEARISH", "NEUTRAL"}]

\* the ThreeDSignal fields _generate_signal reads
ThreeDSignals ==
    [is_valid_signal : BOOLEAN,
     confluence : {"BULLISH", "BEARISH", "NEUTRAL", "CONFLICTING"}]

\* the PositionSizeResult calculate_position_size may return
SizingResults ==
    { [is_valid |-> TRUE,  quantity |-> 2, reason |-> "Position size valid"],
      [is_valid |-> FALSE, quantity |-> 0, reason |-> "Insufficient account balance"],
      [is_valid |-> FALSE, quantity |-> 1, reason |-> "Position value below minimum notional"] }

\* the SlippageCheck check_slippage may return
SlippageResults ==
    { [is_acceptable |-> TRUE,  reason |-> "Slippage acceptable"],
      [is_acceptable |-> FALSE, reason |-> "Insufficient liquidity"],
      [is_acceptable |-> FALSE, reason |-> "Slippage exceeds max"] }

\* _generate_signal with the sign of the EMA deviation left out of the direction test
GenerateSignalAnyEmaSign(symbol, current_price, vpa_signal, three_d_signal, ema_deviation, position_result, slippage_check) ==
    LET aligned == /\ vpa_signal.is_valid_signal
                   /\ three_d_signal.is_valid_signal
                   /\ Abs(ema_deviation) >= EMA_DEVIATION_THRESHOLD
                   /\ vpa_signal.direction = three_d_signal.confluence
                   /\ vpa_signal.direction \in {"BULLISH", "BEARISH"}
    IN  [ symbol |-> symbol,
          action |-> IF ~aligned THEN "HOLD"
                     ELSE IF vpa_signal.direction = "BULLISH" THEN "BUY" ELSE "SELL",
          entry_price |-> current_price,
          quantity |-> IF aligned THEN position_result.quantity ELSE 0,
          is_valid |-> aligned /\ position_result.is_valid /\ slippage_check.is_acceptable,
          rejection_reason |-> IF aligned THEN <<>> ELSE <<"rejected">> ]

\* StrategyCoordinator._generate_signal; position_result and slippage_check are
\* what calculate_position_size and check_slippage return if they are called;
\* rejection_reason is the f-string as its parts, <<>> for ''
generate_signal(symbol, current_price, vpa_signal, three_d_signal, ema_deviation, position_result, slippage_check) ==
    LET gate ==
            IF ~vpa_signal.is_valid_signal
            THEN [action |-> "HOLD", is_valid |-> FALSE, reason |-> <<"VPA not valid">>]
            ELSE IF ~three_d_signal.is_valid_signal
            THEN [action |-> "HOLD", is_valid |-> FALSE, reason |-> <<"3D not valid">>]
            ELSE IF Abs(ema_deviation) < EMA_DEVIATION_THRESHOLD
            THEN [action |-> "HOLD", is_valid |-> FALSE,
                  reason |-> <<"EMA deviation below threshold">>]
            ELSE IF /\ vpa_signal.direction = "BULLISH"
                    /\ three_d_signal.confluence = "BULLISH"
                    /\ ema_deviation < 0
            THEN [action |-> "BUY", is_valid |-> TRUE, reason |-> <<>>]
            ELSE IF /\ vpa_signal.direction = "BEARISH"
                    /\ three_d_signal.confluence = "BEARISH"
                    /\ ema_deviation > 0
            THEN [action |-> "SELL", is_valid |-> TRUE, reason |-> <<>>]
            ELSE [action |-> "HOLD", is_valid |-> FALSE,
                  reason |-> <<"VPA/3D direction mismatch or EMA not in favor">>]
        sized ==
            IF ~gate.is_valid THEN [is_valid |-> FALSE, quantity |-> 0, reason |-> gate.reason]
            ELSE IF ~position_result.is_valid
            THEN [is_valid |-> FALSE, quantity |-> 0,
                  reason |-> <<"Position sizing failed: ", position_result.reason>>]
            ELSE IF ~slippage_check.is_acceptable
            THEN [is_valid |-> FALSE, quantity |-> position_result.quantity,
                  reason |-> <<"Slippage too high: ", slippage_check.reason>>]
            ELSE [is_valid |-> TRUE, quantity |-> position_result.quantity,
                  reason |-> <<>>]
    IN  [ symbol |-> symbol, action |-> gate.action, entry_price |-> current_price,
          quantity |-> sized.quantity, is_valid |-> sized.is_valid,
          rejection_reason |-> sized.reason ]

\* strategy_tick hands every signal to execute_trade
KeepEverySignal(signal) == <<signal>>

\* evaluate_all_symbols and strategy_tick: `if signal and signal.is_valid`
valid_signals(signal) == IF signal.is_valid THEN <<signal>> ELSE <<>>

\* evaluate_symbol has reached _generate_signal with these analysis results
SignalCall(symbol, vpa_signal, three_d_signal, ema_deviation, position_result, slippage_check) ==
    [ fn |-> "_generate_signal", pc |-> "called", symbol |-> symbol,
      vpa_signal |-> vpa_signal, three_d_signal |-> three_d_signal,
      ema_deviation |-> ema_deviation, position_result |-> position_result,
      slippage_check |-> slippage_check, result |-> NoSignal ]

\* strategy_tick for the symbol: _generate_signal returns, and execute_trade.delay
\* is called for the signal that is kept
tick_signal ==
    LET signal == generate_signal(call.symbol, 100, call.vpa_signal, call.three_d_signal,
                                  call.ema_deviation, call.position_result,
                                  call.slippage_check)
        kept == valid_signals(signal)
    IN  /\ call.fn = "_generate_signal"
        /\ call.pc = "called"
        /\ is_trading_active
        /\ call' = [call EXCEPT !.pc = "returned", !.result = signal]
        /\ execTasks' = execTasks \o
              [k \in 1..Len(kept) |->
                  NewExec([ id |-> Len(execTasks) + k, symbol |-> kept[k].symbol,
                            action |-> kept[k].action, quantity |-> kept[k].quantity,
                            entry_price |-> kept[k].entry_price ], 0)]
        /\ UNCHANGED <<positions, trades, riskState, cacheStatus, orders, cancelCalls,
                       closers, monitors, wsQueue, ticks, cbTask, riskWriters, klineFeed, clock>>

InitSignal ==
    /\ positions = <<>>
    /\ trades = <<>>
    /\ orders = <<>>
    /\ cancelCalls = <<>>
    /\ InitTrading(400)
    /\ closers = <<>>
    /\ monitors = <<>>
    /\ wsQueue = <<>>
    /\ execTasks = <<>>
    /\ ticks = <<>>
    /\ cbTask = CbIdle
    /\ riskWriters = <<>>
    /\ klineFeed = NoFeed
    /\ \E symbol \in Symbols, vpa_signal \in VpaSignals, three_d_signal \in ThreeDSignals,
          ema_deviation \in EmaDeviations, position_result \in SizingResults,
          slippage_check \in SlippageResults :
          call = SignalCall(symbol, vpa_signal, three_d_signal, ema_deviation,
                            position_result, slippage_check)

NextSignal ==
    \/ tick_signal
    \/ \E e \in DOMAIN execTasks : exec_place(e)

SpecSignal == InitSignal /\ [][NextSignal]_vars

\* C21: a signal _generate_signal returns with is_valid = true passed the whole
\* gate: VPA valid, 3-D valid, |ema_deviation| >= threshold, and BUY with VPA
\* Bullish, 3-D Bullish, deviation < 0 or SELL with VPA Bearish, 3-D Bearish,
\* deviation > 0
C21_ValidSignalPassedGate ==
    (call.fn = "_generate_signal" /\ call.pc = "returned" /\ call.result.is_valid) =>
        /\ call.vpa_signal.is_valid_signal
        /\ call.three_d_signal.is_valid_signal
        /\ Abs(call.ema_deviation) >= EMA_DEVIATION_THRESHOLD
        /\ \/ /\ call.result.action = "BUY"
              /\ call.vpa_signal.direction = "BULLISH"
              /\ call.three_d_signal.confluence = "BULLISH"
              /\ call.ema_deviation < 0
           \/ /\ call.result.action = "SELL"
              /\ call.vpa_signal.direction = "BEARISH"
              /\ call.three_d_signal.confluence = "BEARISH"
              /\ call.ema_deviation > 0

\* C21 witness: a valid SELL signal has been returned at a deviation exactly at
\* the threshold
C21_Witness ==
    /\ call.fn = "_generate_signal"
    /\ call.pc = "returned"
    /\ call.result.is_valid
    /\ call.result.action = "SELL"
    /\ call.ema_deviation = EMA_DEVIATION_THRESHOLD

\* the direction gate passed and position sizing or slippage admission failed
SizingOrSlippageFailed ==
    /\ call.fn = "_generate_signal"
    /\ call.pc = "returned"
    /\ call.result.action \in {"BUY", "SELL"}
    /\ ~call.position_result.is_valid \/ ~call.slippage_check.is_acceptable

\* C22: a signal whose position sizing or slippage admission fails is returned
\* with is_valid = false and a non-empty rejection_reason, strategy_tick hands
\* no execute_trade to the queue for it, and no order is placed
C22_RejectedSignalNotExecuted ==
    SizingOrSlippageFailed =>
        /\ ~call.result.is_valid
        /\ call.result.rejection_reason # <<>>
        /\ execTasks = <<>>
        /\ orders = <<>>

\* C22 witness: a BUY signal that passed the gate came back rejected by the
\* slippage check, after position sizing had succeeded
C22_Witness ==
    /\ SizingOrSlippageFailed
    /\ call.result.action = "BUY"
    /\ call.position_result.is_valid
    /\ ~call.slippage_check.is_acceptable
    /\ call.result.rejection_reason = <<"Slippage too high: ", "Insufficient liquidity">>


(***************************************************************************)
(* SpecSizing: BinanceClient.format_quantity and                           *)
(* RiskManager.calculate_position_size.  A quantity is a fraction          *)
(* [num, den] of hundredths of the base asset; prices and balances are     *)
(* whole quote units.                                                       *)
(***************************************************************************)
MaxQuantity == 60

\* settings.ACCOUNT_RISK_PCT = 0.015, in thousandths
ACCOUNT_RISK_PER_MILLE == 15

\* hundredths per whole unit
QTY_SCALE == 100

RECURSIVE Pow10(_)
Pow10(n) == IF n = 0 THEN 1 ELSE 10 * Pow10(n - 1)

\* LOT_SIZE stepSize values as Decimal(coefficient, exponent): 1, 0.1, 0.5, 0.10, 0.01
StepSizes ==
    { [coefficient |-> 1,  exponent |-> 0],
      [coefficient |-> 1,  exponent |-> 0 - 1],
      [coefficient |-> 5,  exponent |-> 0 - 1],
      [coefficient |-> 10, exponent |-> 0 - 2],
      [coefficient |-> 1,  exponent |-> 0 - 2] }

\* the value of a step size in hundredths
StepValue(step_size) == step_size.coefficient * Pow10(2 + step_size.exponent)

\* Decimal.quantize(Decimal(10) ** -precision) under the default context
\* (ROUND_HALF_EVEN): the nearest multiple of 10^-precision, ties to the even one
quantize(quantity, precision) ==
    LET unit  == Pow10(2 - precision)
        d     == quantity.den * unit
        whole == quantity.num \div d
        rest  == quantity.num % d
        up    == 2 * rest > d \/ (2 * rest = d /\ whole % 2 = 1)
    IN  [num |-> (IF up THEN whole + 1 ELSE whole) * unit, den |-> 1]

\* BinanceClient.format_quantity for a symbol whose LOT_SIZE step is step_size
\* (`if step_size:` is false for a missing filter and for a step of 0, both
\* modelled as coefficient 0)
format_quantity(step_size, quantity) ==
    IF step_size.coefficient # 0
    THEN quantize(quantity, Abs(step_size.exponent))
    ELSE quantity

\* the largest multiple of the step that is <= quantity
IsRoundedDown(result, step_size, quantity) ==
    /\ result.den = 1
    /\ result.num % StepValue(step_size) = 0
    /\ result.num * quantity.den <= quantity.num
    /\ (result.num + StepValue(step_size)) * quantity.den > quantity.num

\* the symbol rules get_symbol_info returns (min_notional in quote units, min_qty
\* in hundredths; None: the exchange lists no such filter)
SymbolInfos ==
    [step_size : StepSizes, min_notional : {None, 10}, min_qty : {0, 50}]

\* free USDT balances get_account_balance may return (None: the call raises)
SizingBalances == {None, 0, 4, 100, 104, 110, 400}

\* stop prices for an entry at 100
StopPrices == {100, 99, 98, 103}

\* RiskManager.calculate_position_size(symbol, entry_price, stop_price) with a
\* Binance client; any exception inside gives is_valid False with reason "Error"
calculate_position_size(symbol_info, entry_price, stop_price, account_balance) ==
    LET invalid(reason) == [quantity |-> [num |-> 0, den |-> 1], is_valid |-> FALSE,
                            reason |-> reason]
        stop_distance == Abs(entry_price - stop_price)
        exact    == [num |-> account_balance * ACCOUNT_RISK_PER_MILLE * QTY_SCALE,
                     den |-> 1000 * stop_distance]
        quantity == format_quantity(symbol_info.step_size, exact)
    IN  IF account_balance = None THEN invalid("Error")
        ELSE IF account_balance <= 0 THEN invalid("Insufficient account balance")
        ELSE IF stop_distance <= 0 THEN invalid("Invalid stop distance (must be > 0)")
        ELSE IF symbol_info.min_notional = None THEN invalid("Error")
        ELSE IF quantity.num * entry_price
                    < symbol_info.min_notional * QTY_SCALE * quantity.den
        THEN [quantity |-> quantity, is_valid |-> FALSE,
              reason |-> "Position value below minimum notional"]
        ELSE IF quantity.num < symbol_info.min_qty * quantity.den
        THEN [quantity |-> quantity, is_valid |-> FALSE,
              reason |-> "Quantity below minimum"]
        ELSE [quantity |-> quantity, is_valid |-> TRUE, reason |-> "Position size valid"]

\* a caller has reached format_quantity
FormatQuantityCall(step_size, quantity) ==
    [ fn |-> "format_quantity", pc |-> "called", step_size |-> step_size,
      quantity |-> quantity, result |-> quantity ]

\* _generate_signal has reached calculate_position_size
PositionSizeCall(symbol_info, entry_price, stop_price, account_balance) ==
    [ fn |-> "calculate_position_size", pc |-> "called", symbol_info |-> symbol_info,
      entry_price |-> entry_price, stop_price |-> stop_price,
      account_balance |-> account_balance,
      result |-> [quantity |-> [num |-> 0, den |-> 1], is_valid |-> FALSE, reason |-> ""] ]

\* format_quantity returns
format_quantity_returns ==
    /\ call.fn = "format_quantity"
    /\ call.pc = "called"
    /\ call' = [call EXCEPT !.pc = "returned",
                            !.result = format_quantity(call.step_size, call.quantity)]
    /\ UNCHANGED <<positions, trades, riskState, cacheStatus, orders, cancelCalls, closers,
                   monitors, wsQueue, execTasks, ticks, cbTask, riskWriters, klineFeed, clock>>

\* calculate_position_size returns
calculate_position_size_returns ==
    /\ call.fn = "calculate_position_size"
    /\ call.pc = "called"
    /\ call' = [call EXCEPT !.pc = "returned",
                   !.result = calculate_position_size(call.symbol_info, call.entry_price,
                                                      call.stop_price, call.account_balance)]
    /\ UNCHANGED <<positions, trades, riskState, cacheStatus, orders, cancelCalls, closers,
                   monitors, wsQueue, execTasks, ticks, cbTask, riskWriters, klineFeed, clock>>

\* nothing in flight but the call
OnlyCall ==
    /\ positions = <<>>
    /\ trades = <<>>
    /\ orders = <<>>
    /\ cancelCalls = <<>>
    /\ InitTrading(400)
    /\ closers = <<>>
    /\ monitors = <<>>
    /\ wsQueue = <<>>
    /\ execTasks = <<>>
    /\ ticks = <<>>
    /\ cbTask = CbIdle
    /\ riskWriters = <<>>
    /\ klineFeed = NoFeed

InitSizing ==
    /\ OnlyCall
    /\ \/ \E step_size \in StepSizes, num \in 0..MaxQuantity, den \in {1, 10} :
             call = FormatQuantityCall(step_size, [num |-> num, den |-> den])
       \/ \E symbol_info \in SymbolInfos, stop_price \in StopPrices,
             account_balance \in SizingBalances :
             call = PositionSizeCall(symbol_info, 100, stop_price, account_balance)

NextSizing ==
    \/ format_quantity_returns
    \/ calculate_position_size_returns

SpecSizing == InitSizing /\ [][NextSizing]_vars

\* C23: calculate_position_size returns is_valid = true only if balance > 0,
\* |entry - stop| > 0, quantity = (balance x account_risk_pct) / |entry - stop|
\* rounded down to the step size, quantity x entry >= min_notional and quantity
\* >= min_qty; in every other case is_valid = false with a reason
C23_PositionSizeValid ==
    (call.fn = "calculate_position_size" /\ call.pc = "returned") =>
        IF call.result.is_valid
        THEN /\ call.account_balance # None
             /\ call.account_balance > 0
             /\ Abs(call.entry_price - call.stop_price) > 0
             /\ IsRoundedDown(call.result.quantity, call.symbol_info.step_size,
                    [num |-> call.account_balance * ACCOUNT_RISK_PER_MILLE * QTY_SCALE,
                     den |-> 1000 * Abs(call.entry_price - call.stop_price)])
             /\ call.symbol_info.min_notional # None
             /\ call.result.quantity.num * call.entry_price
                    >= call.symbol_info.min_notional * QTY_SCALE
             /\ call.result.quantity.num >= call.symbol_info.min_qty
        ELSE call.result.reason # ""

\* C24: for every step size and every quantity q >= 0 format_quantity returns the
\* largest multiple of the step size that is <= q
C24_FormatQuantityRoundsDown ==
    (call.fn = "format_quantity" /\ call.pc = "returned") =>
        IsRoundedDown(call.result, call.step_size, call.quantity)


(***************************************************************************)
(* SpecSlippage: RiskManager.check_slippage on an order book                *)
(***************************************************************************)
MaxLadder == 2

\* settings.MAX_SLIPPAGE_PCT = 0.002, in thousandths
MAX_SLIPPAGE_PER_MILLE == 2

\* price levels (price, quantity) of the two sides of the book
AskLevels == {1000, 1003, 1005} \X {1, 2}
BidLevels == {999, 996, 994} \X {1, 2}

\* ladders of at most MaxLadder levels, best price first
AskLadders ==
    {l \in UNION {[1..n -> AskLevels] : n \in 0..MaxLadder} :
        \A i \in 1..(Len(l) - 1) : l[i][1] < l[i + 1][1]}
BidLadders ==
    {l \in UNION {[1..n -> BidLevels] : n \in 0..MaxLadder} :
        \A i \in 1..(Len(l) - 1) : l[i][1] > l[i + 1][1]}

\* the loop of check_slippage over the levels, from level i: what is left to
\* fill and the cost so far
RECURSIVE walk_levels(_, _, _, _)
walk_levels(levels, i, remaining_qty, total_cost) ==
    IF i > Len(levels) \/ remaining_qty <= 0
    THEN [remaining_qty |-> remaining_qty, total_cost |-> total_cost]
    ELSE LET fill_qty == IF remaining_qty <= levels[i][2] THEN remaining_qty
                                                         ELSE levels[i][2]
         IN  walk_levels(levels, i + 1, remaining_qty - fill_qty,
                         total_cost + fill_qty * levels[i][1])

\* the outcome of check_slippage on the ladder it chose
slippage_of(levels, quantity) ==
    LET w == walk_levels(levels, 1, quantity, 0)
    IN  IF levels = <<>>
        THEN [is_acceptable |-> FALSE, sufficient_liquidity |-> FALSE,
              reason |-> "Empty order book"]
        ELSE IF w.remaining_qty > 0
        THEN [is_acceptable |-> FALSE, sufficient_liquidity |-> FALSE,
              reason |-> "Insufficient liquidity"]
        ELSE IF quantity = 0
        THEN [is_acceptable |-> FALSE, sufficient_liquidity |-> FALSE, reason |-> "Error"]
        ELSE \* slippage_pct = |total_cost / quantity - best| / best * 100, compared
             \* with max_slippage_pct * 100, both sides multiplied out
             IF Abs(w.total_cost - levels[1][1] * quantity) * 100 * 1000
                   <= MAX_SLIPPAGE_PER_MILLE * 100 * levels[1][1] * quantity
             THEN [is_acceptable |-> TRUE, sufficient_liquidity |-> TRUE,
                   reason |-> "Slippage acceptable"]
             ELSE [is_acceptable |-> FALSE, sufficient_liquidity |-> TRUE,
                   reason |-> "Slippage exceeds max"]

\* check_slippage reading the ladder of the order's own side
CheckSlippageSameSide(order_book, side, quantity) ==
    IF order_book = <<>>
    THEN [is_acceptable |-> FALSE, sufficient_liquidity |-> FALSE,
          reason |-> "No order book data available"]
    ELSE slippage_of(IF side = "BUY" THEN order_book[1].bids ELSE order_book[1].asks,
                     quantity)

\* RiskManager.check_slippage(symbol, side, quantity); order_book is <<>> when
\* neither the cache nor the exchange gave one, <<book>> otherwise
check_slippage(order_book, side, quantity) ==
    IF order_book = <<>>
    THEN [is_acceptable |-> FALSE, sufficient_liquidity |-> FALSE,
          reason |-> "No order book data available"]
    ELSE slippage_of(IF side = "BUY" THEN order_book[1].asks ELSE order_book[1].bids,
                     quantity)

\* _generate_signal has reached check_slippage
SlippageCall(order_book, side, quantity) ==
    [ fn |-> "check_slippage", pc |-> "called", order_book |-> order_book,
      side |-> side, quantity |-> quantity,
      result |-> [is_acceptable |-> FALSE, sufficient_liquidity |-> FALSE, reason |-> ""] ]

\* check_slippage returns
check_slippage_returns ==
    /\ call.fn = "check_slippage"
    /\ call.pc = "called"
    /\ call' = [call EXCEPT !.pc = "returned",
                   !.result = check_slippage(call.order_book, call.side, call.quantity)]
    /\ UNCHANGED <<positions, trades, riskState, cacheStatus, orders, cancelCalls, closers,
                   monitors, wsQueue, execTasks, ticks, cbTask, riskWriters, klineFeed, clock>>

InitSlippage ==
    /\ OnlyCall
    /\ \E side \in Sides, quantity \in 1..3 :
          \/ call = SlippageCall(<<>>, side, quantity)
          \/ \E asks \in AskLadders, bids \in BidLadders :
                call = SlippageCall(<<[asks |-> asks, bids |-> bids]>>, side, quantity)

NextSlippage == check_slippage_returns

SpecSlippage == InitSlippage /\ [][NextSlippage]_vars

\* the ladder opposite to the order: asks for BUY, bids for SELL
OppositeLadder ==
    IF call.order_book = <<>> THEN <<>>
    ELSE IF call.side = "BUY" THEN call.order_book[1].asks ELSE call.order_book[1].bids

\* the total quantity of the first n levels of a ladder
RECURSIVE LadderQuantity(_, _)
LadderQuantity(levels, n) ==
    IF n = 0 THEN 0 ELSE LadderQuantity(levels, n - 1) + levels[n][2]

\* what level i contributes when quantity is filled from the top of the ladder
FilledAt(levels, i, quantity) ==
    LET before == LadderQuantity(levels, i - 1)
    IN  IF quantity <= before THEN 0
        ELSE IF quantity - before <= levels[i][2] THEN quantity - before
        ELSE levels[i][2]

\* the cost of filling quantity from the top of the ladder, over the first n levels
RECURSIVE FillCost(_, _, _)
FillCost(levels, n, quantity) ==
    IF n = 0 THEN 0
    ELSE FillCost(levels, n - 1, quantity) + FilledAt(levels, n, quantity) * levels[n][1]

\* C25: check_slippage walks the opposite-side ladder from the top; when the
\* ladder holds less than the requested quantity it reports sufficient_liquidity
\* = false and is_acceptable = false; otherwise is_acceptable is true exactly when
\* |avg - best| / best x 100 <= max_slippage_pct x 100, avg being the
\* volume-weighted fill price and best the top level's price
C25_SlippageAdmission ==
    (call.fn = "check_slippage" /\ call.pc = "returned") =>
        LET levels == OppositeLadder
            cost   == FillCost(levels, Len(levels), call.quantity)
        IN  IF LadderQuantity(levels, Len(levels)) < call.quantity
            THEN ~call.result.sufficient_liquidity /\ ~call.result.is_acceptable
            ELSE /\ call.result.sufficient_liquidity
                 /\ call.result.is_acceptable <=>
                       (Abs(cost - levels[1][1] * call.quantity) * 1000
                            <= MAX_SLIPPAGE_PER_MILLE * levels[1][1] * call.quantity)

\* C25 witness: a BUY of 3 filled over two ask levels whose volume-weighted price
\* is exactly 0.2 % above the best ask has been admitted, while the bid ladder
\* could not have filled it
C25_Witness ==
    /\ call.fn = "check_slippage"
    /\ call.pc = "returned"
    /\ call.side = "BUY"
    /\ call.quantity = 3
    /\ call.order_book # <<>>
    /\ call.order_book[1].asks = << <<1000, 1>>, <<1003, 2>> >>
    /\ LadderQuantity(call.order_book[1].bids, Len(call.order_book[1].bids)) < 3
    /\ call.result.is_acceptable


(***************************************************************************)
(* SpecKlines: the 1m kline stream into the cache list                      *)
(* klines:{symbol}:{interval} and StrategyCoordinator._fetch_klines.  A bar *)
(* is its open_time, counted in bars.                                       *)
(***************************************************************************)
MaxBars == 24

\* _fetch_klines uses the cached list when it has at least this many bars
MIN_CACHED_KLINES == 20

\* count / limit of get_kline_history and get_klines in _fetch_klines
KLINE_FETCH_COUNT == 50

\* max_length of append_kline_to_history
KLINE_MAX_LENGTH == 100

Min(a, b) == IF a <= b THEN a ELSE b
Max(a, b) == IF a >= b THEN a ELSE b

\* RedisCache.append_kline_to_history: LPUSH, then LTRIM 0 max_length - 1
append_kline_to_history(cache, kline) ==
    SubSeq(<<kline>> \o cache, 1, Min(Len(cache) + 1, KLINE_MAX_LENGTH))

\* RedisCache.get_kline_history: LRANGE 0 count - 1
get_kline_history(cache, count) == SubSeq(cache, 1, Min(Len(cache), count))

\* BinanceClient.get_klines(limit): the latest bars of the exchange, oldest first,
\* the bar still open last
get_klines(closed, limit) ==
    LET last  == closed + 1
        first == Max(1, last - limit + 1)
    IN  [i \in 1..(last - first + 1) |-> first + i - 1]

\* StrategyCoordinator._fetch_klines for one timeframe: the candle list handed to
\* the VPA analyzer and the EMA computation
fetch_klines(feed) ==
    LET cached == get_kline_history(feed.cache, KLINE_FETCH_COUNT)
    IN  IF Len(cached) >= MIN_CACHED_KLINES THEN cached
        ELSE get_klines(feed.closed, KLINE_FETCH_COUNT)

\* WebSocketManager._handle_kline_message for a closed candle: the exchange has
\* closed one more bar and the handler pushes it to the cache list
handle_kline_message ==
    /\ klineFeed.closed < MaxBars
    /\ klineFeed' = [ closed |-> klineFeed.closed + 1,
                      cache  |-> append_kline_to_history(klineFeed.cache,
                                                         klineFeed.closed + 1) ]
    /\ UNCHANGED <<positions, trades, riskState, cacheStatus, orders, cancelCalls, closers,
                   monitors, wsQueue, execTasks, ticks, cbTask, riskWriters, call, clock>>

\* evaluate_symbol: klines_by_tf = self._fetch_klines(symbol), for the 1m list
fetch_klines_returns ==
    /\ call' = [ fn |-> "_fetch_klines", pc |-> "returned",
                 from_cache |-> Len(klineFeed.cache) >= MIN_CACHED_KLINES,
                 result |-> fetch_klines(klineFeed) ]
    /\ UNCHANGED <<positions, trades, riskState, cacheStatus, orders, cancelCalls, closers,
                   monitors, wsQueue, execTasks, ticks, cbTask, riskWriters, klineFeed,
                   clock>>

InitKlines ==
    /\ positions = <<>>
    /\ trades = <<>>
    /\ orders = <<>>
    /\ cancelCalls = <<>>
    /\ InitTrading(400)
    /\ closers = <<>>
    /\ monitors = <<>>
    /\ wsQueue = <<>>
    /\ execTasks = <<>>
    /\ ticks = <<>>
    /\ cbTask = CbIdle
    /\ riskWriters = <<>>
    /\ call = NoCall
    /\ \E closed \in 0..3 : klineFeed = [closed |-> closed, cache |-> <<>>]

NextKlines ==
    \/ handle_kline_message
    \/ fetch_klines_returns

SpecKlines == InitKlines /\ [][NextKlines]_vars

\* the candles are ordered oldest to newest, the most recent bar last
IsOldestFirst(candles) ==
    \A i \in 1..(Len(candles) - 1) : candles[i] < candles[i + 1]

\* C26: the candle sequence handed to the VPA analyzer and the EMA computation is
\* ordered oldest to newest, whether it was read from the cache list or fetched
\* from the exchange
C26_CandlesOldestFirst ==
    (call.fn = "_fetch_klines" /\ call.pc = "returned") => IsOldestFirst(call.result)


(***************************************************************************)
(* SpecVPA: VPAAnalyzer.analyze from the metrics of the current candle.     *)
(* volume_anomaly, spread_ratio and close_position are in hundredths.       *)
(***************************************************************************)
ULTRA_HIGH_VOLUME == 250
HIGH_VOLUME == 150
LOW_VOLUME == -50
ULTRA_LOW_VOLUME == -150
WIDE_SPREAD == 150
NARROW_SPREAD == 50
EFFORT_SPREAD == 75
UPPER_THIRD == 67
LOWER_THIRD == 33

\* strength >= 0.5, strengths counted in 1/100000
MIN_STRENGTH == 50000

Trends == {"BULLISH", "BEARISH", "NEUTRAL"}

\* the metrics of this specification: the thresholds and their neighbours
VolumeAnomalies == {0 - 300, 0 - 150, 0 - 149, 0 - 50, 0 - 49, 0 - 1, 0, 149, 150, 249, 250}
SpreadRatios == {50, 51, 74, 75, 149, 150}
ClosePositions == {33, 34, 66, 67}

\* _identify_pattern with the EFFORT_VS_RESULT test ahead of STOPPING_VOLUME
IdentifyPatternEffortFirst(volume_anomaly, spread_ratio, close_position, is_bullish, trend) ==
    IF /\ volume_anomaly >= ULTRA_HIGH_VOLUME /\ spread_ratio >= WIDE_SPREAD
       /\ is_bullish /\ trend = "BULLISH"
    THEN "CLIMAX_HIGH"
    ELSE IF /\ volume_anomaly >= ULTRA_HIGH_VOLUME /\ spread_ratio >= WIDE_SPREAD
            /\ ~is_bullish /\ trend = "BEARISH"
    THEN "CLIMAX_LOW"
    ELSE IF volume_anomaly >= HIGH_VOLUME /\ spread_ratio < EFFORT_SPREAD
    THEN "EFFORT_VS_RESULT"
    ELSE IF volume_anomaly >= HIGH_VOLUME /\ spread_ratio <= NARROW_SPREAD
    THEN "STOPPING_VOLUME"
    ELSE "NEUTRAL"

\* VPAAnalyzer._identify_pattern
identify_pattern(volume_anomaly, spread_ratio, close_position, is_bullish, trend) ==
    LET climax ==
            IF volume_anomaly >= ULTRA_HIGH_VOLUME /\ spread_ratio >= WIDE_SPREAD
            THEN IF is_bullish /\ trend = "BULLISH" THEN "CLIMAX_HIGH"
                 ELSE IF ~is_bullish /\ trend = "BEARISH" THEN "CLIMAX_LOW"
                 ELSE "NEUTRAL"
            ELSE "NEUTRAL"
    IN  IF climax # "NEUTRAL" THEN climax
        ELSE IF volume_anomaly >= HIGH_VOLUME /\ spread_ratio <= NARROW_SPREAD
        THEN "STOPPING_VOLUME"
        ELSE IF volume_anomaly >= HIGH_VOLUME /\ spread_ratio < EFFORT_SPREAD
        THEN "EFFORT_VS_RESULT"
        ELSE IF /\ volume_anomaly <= LOW_VOLUME /\ is_bullish
                /\ close_position >= UPPER_THIRD
        THEN "NO_DEMAND"
        ELSE IF /\ volume_anomaly <= LOW_VOLUME /\ ~is_bullish
                /\ close_position <= LOWER_THIRD
        THEN "NO_SUPPLY"
        ELSE IF volume_anomaly <= ULTRA_LOW_VOLUME THEN "TEST"
        ELSE IF /\ spread_ratio >= WIDE_SPREAD /\ is_bullish
                /\ close_position <= LOWER_THIRD /\ volume_anomaly >= 0
        THEN "UPTHRUST"
        ELSE IF /\ spread_ratio >= WIDE_SPREAD /\ ~is_bullish
                /\ close_position >= UPPER_THIRD /\ volume_anomaly >= 0
        THEN "SPRING"
        ELSE "NEUTRAL"

\* pattern_weights of _calculate_strength, in hundredths
pattern_weight(pattern) ==
    CASE pattern \in {"CLIMAX_HIGH", "CLIMAX_LOW"} -> 90
      [] pattern = "STOPPING_VOLUME"               -> 80
      [] pattern \in {"UPTHRUST", "SPRING"}        -> 85
      [] pattern \in {"NO_DEMAND", "NO_SUPPLY"}    -> 70
      [] pattern = "TEST"                          -> 60
      [] pattern = "EFFORT_VS_RESULT"              -> 65
      [] OTHER                                     -> 0

\* VPAAnalyzer._calculate_strength, in 1/100000:
\* base_strength * (0.7 + 0.3 * min(|volume_anomaly| / 3, 1)), clamped to [0, 1]
calculate_strength(pattern, volume_anomaly) ==
    IF pattern = "NEUTRAL" THEN 0
    ELSE Min(Max(pattern_weight(pattern) * (700 + Min(Abs(volume_anomaly), 300)), 0),
             100000)

\* VPAAnalyzer._is_valid_signal
vpa_is_valid_signal(pattern, strength, trend) ==
    IF pattern = "NEUTRAL" THEN FALSE
    ELSE IF strength < MIN_STRENGTH THEN FALSE
    ELSE IF pattern \in {"CLIMAX_HIGH", "CLIMAX_LOW", "UPTHRUST", "SPRING",
                         "STOPPING_VOLUME"}
    THEN TRUE
    ELSE IF pattern = "NO_DEMAND" /\ trend # "BULLISH" THEN TRUE
    ELSE IF pattern = "NO_SUPPLY" /\ trend # "BEARISH" THEN TRUE
    ELSE TRUE

\* VPAAnalyzer.analyze after the metrics have been computed
vpa_analyze(volume_anomaly, spread_ratio, close_position, is_bullish, trend) ==
    LET pattern  == identify_pattern(volume_anomaly, spread_ratio, close_position,
                                     is_bullish, trend)
        strength == calculate_strength(pattern, volume_anomaly)
    IN  [ pattern |-> pattern, strength |-> strength,
          is_valid_signal |-> vpa_is_valid_signal(pattern, strength, trend) ]

\* evaluate_symbol has reached vpa_analyzer.analyze: the metrics of the candles
VpaCall(volume_anomaly, spread_ratio, close_position, is_bullish, trend) ==
    [ fn |-> "vpa_analyze", pc |-> "called", volume_anomaly |-> volume_anomaly,
      spread_ratio |-> spread_ratio, close_position |-> close_position,
      is_bullish |-> is_bullish, trend |-> trend,
      result |-> [pattern |-> "NEUTRAL", strength |-> 0, is_valid_signal |-> FALSE] ]

\* analyze returns
vpa_analyze_returns ==
    /\ call.fn = "vpa_analyze"
    /\ call.pc = "called"
    /\ call' = [call EXCEPT !.pc = "returned",
                   !.result = vpa_analyze(call.volume_anomaly, call.spread_ratio,
                                          call.close_position, call.is_bullish,
                                          call.trend)]
    /\ UNCHANGED <<positions, trades, riskState, cacheStatus, orders, cancelCalls, closers,
                   monitors, wsQueue, execTasks, ticks, cbTask, riskWriters, klineFeed,
                   clock>>

InitVPA ==
    /\ OnlyCall
    /\ \E volume_anomaly \in VolumeAnomalies, spread_ratio \in SpreadRatios,
          close_position \in ClosePositions, is_bullish \in BOOLEAN, trend \in Trends :
          call = VpaCall(volume_anomaly, spread_ratio, close_position, is_bullish, trend)

NextVPA == vpa_analyze_returns

SpecVPA == InitVPA /\ [][NextVPA]_vars

\* the pattern table, in its order: the condition of each row on the call's metrics
PatternTable ==
    << [pattern |-> "CLIMAX_HIGH",
        holds |-> /\ call.volume_anomaly >= 250 /\ call.spread_ratio >= 150
                  /\ call.is_bullish /\ call.trend = "BULLISH"],
       [pattern |-> "CLIMAX_LOW",
        holds |-> /\ call.volume_anomaly >= 250 /\ call.spread_ratio >= 150
                  /\ ~call.is_bullish /\ call.trend = "BEARISH"],
       [pattern |-> "STOPPING_VOLUME",
        holds |-> call.volume_anomaly >= 150 /\ call.spread_ratio <= 50],
       [pattern |-> "EFFORT_VS_RESULT",
        holds |-> call.volume_anomaly >= 150 /\ call.spread_ratio < 75],
       [pattern |-> "NO_DEMAND",
        holds |-> /\ call.volume_anomaly <= 0 - 50 /\ call.is_bullish
                  /\ call.close_position >= 67],
       [pattern |-> "NO_SUPPLY",
        holds |-> /\ call.volume_anomaly <= 0 - 50 /\ ~call.is_bullish
                  /\ call.close_position <= 33],
       [pattern |-> "TEST", holds |-> call.volume_anomaly <= 0 - 150],
       [pattern |-> "UPTHRUST",
        holds |-> /\ call.spread_ratio >= 150 /\ call.is_bullish
                  /\ call.close_position <= 33 /\ call.volume_anomaly >= 0],
       [pattern |-> "SPRING",
        holds |-> /\ call.spread_ratio >= 150 /\ ~call.is_bullish
                  /\ call.close_position >= 67 /\ call.volume_anomaly >= 0] >>

\* the first row of the table whose condition holds, NEUTRAL if none does
FirstMatch ==
    LET rows == {i \in DOMAIN PatternTable : PatternTable[i].holds}
    IN  IF rows = {} THEN "NEUTRAL"
        ELSE PatternTable[CHOOSE i \in rows : \A j \in rows : i <= j].pattern

\* C27: for every combination of the metrics _identify_pattern returns the first
\* row of the table CLIMAX_HIGH, CLIMAX_LOW, STOPPING_VOLUME, EFFORT_VS_RESULT,
\* NO_DEMAND, NO_SUPPLY, TEST, UPTHRUST, SPRING whose condition holds, NEUTRAL
\* if none holds
C27_PatternFirstMatch ==
    (call.fn = "vpa_analyze" /\ call.pc = "returned") => call.result.pattern = FirstMatch

\* C27 witness: a bar that satisfies both the STOPPING_VOLUME and the
\* EFFORT_VS_RESULT row has been classified
C27_Witness ==
    /\ call.fn = "vpa_analyze"
    /\ call.pc = "returned"
    /\ PatternTable[3].holds
    /\ PatternTable[4].holds
    /\ call.result.pattern = "STOPPING_VOLUME"

\* C28: the VPA signal is valid if and only if pattern # NEUTRAL, strength >= 0.5
\* and the pattern is not rejected by trend: NO_DEMAND is rejected when the trend
\* is Bullish, NO_SUPPLY when the trend is Bearish
C28_VpaValidity ==
    (call.fn = "vpa_analyze" /\ call.pc = "returned") =>
        (call.result.is_valid_signal <=>
            /\ call.result.pattern # "NEUTRAL"
            /\ call.result.strength >= MIN_STRENGTH
            /\ ~(call.result.pattern = "NO_DEMAND" /\ call.trend = "BULLISH")
            /\ ~(call.result.pattern = "NO_SUPPLY" /\ call.trend = "BEARISH"))


(***************************************************************************)
(* SpecThreeD: ThreeDAnalyzer.analyze.  Times are minutes relative to now,  *)
(* deviations are in tenths, the confluence score is counted in 1/30.       *)
(***************************************************************************)
PRE_EVENT_AVOID_MINUTES == 30
POST_EVENT_TRADE_MINUTES == 60
UPCOMING_HORIZON_MINUTES == 1440
RECENT_HORIZON_MINUTES == 120
SCORE_SCALE == 30
\* confluence_score >= 0.6
MIN_CONFLUENCE_SCORE == 18
\* trend_alignment >= 0.75, in hundredths
STRONG_TREND_ALIGNMENT == 75
\* deviation > 0.5 and deviation < -0.5, in tenths
SURPRISE_DEVIATION == 5

DimensionAlignments == {"BULLISH", "BEARISH", "NEUTRAL"}

\* rows the EconomicEvent table can hold: release_time relative to now, impact,
\* deviation_from_forecast (0 while it is not known)
EconomicEvents ==
    { [release_time |-> 20, impact |-> "HIGH", deviation |-> 0],
      [release_time |-> 29, impact |-> "MEDIUM", deviation |-> 0],
      [release_time |-> 30, impact |-> "HIGH", deviation |-> 0],
      [release_time |-> 10, impact |-> "LOW", deviation |-> 0],
      [release_time |-> 0 - 20, impact |-> "MEDIUM", deviation |-> 0 - 10],
      [release_time |-> 0 - 30, impact |-> "HIGH", deviation |-> 10],
      [release_time |-> 0 - 90, impact |-> "HIGH", deviation |-> 10] }

\* results of _analyze_technical: primary trend and trend_alignment in hundredths
TechnicalResults ==
    { [primary_trend |-> "NEUTRAL", trend_alignment |-> 0],
      [primary_trend |-> "BULLISH", trend_alignment |-> 50],
      [primary_trend |-> "BULLISH", trend_alignment |-> 75],
      [primary_trend |-> "BEARISH", trend_alignment |-> 50],
      [primary_trend |-> "BEARISH", trend_alignment |-> 100] }

\* ThreeDAnalyzer._analyze_fundamental over the rows of the event table
analyze_fundamental(events) ==
    LET upcoming == {e \in events : /\ e.release_time > 0
                                    /\ e.release_time < UPCOMING_HORIZON_MINUTES
                                    /\ e.impact \in {"HIGH", "MEDIUM"}}
        recent   == {e \in events : /\ e.release_time > 0 - RECENT_HORIZON_MINUTES
                                    /\ e.release_time < 0
                                    /\ e.impact \in {"HIGH", "MEDIUM"}}
        next_event == CHOOSE e \in upcoming :
                          \A o \in upcoming : e.release_time <= o.release_time
        last_event == CHOOSE e \in recent :
                          \A o \in recent : e.release_time >= o.release_time
        post_event_window ==
            recent # {} /\ 0 - last_event.release_time < POST_EVENT_TRADE_MINUTES
    IN  [ time_to_next_event |-> IF upcoming # {} THEN next_event.release_time ELSE None,
          post_event_window  |-> post_event_window,
          event_impact |->
              IF post_event_window /\ last_event.deviation # 0
              THEN IF last_event.deviation > SURPRISE_DEVIATION THEN "BULLISH"
                   ELSE IF last_event.deviation < 0 - SURPRISE_DEVIATION THEN "BEARISH"
                   ELSE "NEUTRAL"
              ELSE "NEUTRAL" ]

\* ThreeDAnalyzer._calculate_confluence
calculate_confluence(crypto_health, fundamental, technical) ==
    LET dimensions ==
            (IF crypto_health # "NEUTRAL" THEN <<crypto_health>> ELSE <<>>)
            \o (IF fundamental.post_event_window /\ fundamental.event_impact # "NEUTRAL"
                THEN <<fundamental.event_impact>> ELSE <<>>)
            \o (IF technical.primary_trend # "NEUTRAL"
                THEN <<technical.primary_trend>> ELSE <<>>)
        bullish_count == Cardinality({i \in DOMAIN dimensions : dimensions[i] = "BULLISH"})
        bearish_count == Cardinality({i \in DOMAIN dimensions : dimensions[i] = "BEARISH"})
        outcome ==
            IF bullish_count >= 2
            THEN [confluence |-> "BULLISH", dimensions_aligned |-> bullish_count]
            ELSE IF bearish_count >= 2
            THEN [confluence |-> "BEARISH", dimensions_aligned |-> bearish_count]
            ELSE IF bullish_count = 1 /\ bearish_count = 1
            THEN [confluence |-> "CONFLICTING", dimensions_aligned |-> 0]
            ELSE IF bullish_count = 1
            THEN [confluence |-> "BULLISH", dimensions_aligned |-> 1]
            ELSE IF bearish_count = 1
            THEN [confluence |-> "BEARISH", dimensions_aligned |-> 1]
            ELSE [confluence |-> "NEUTRAL", dimensions_aligned |-> 0]
        max_possible == Len(dimensions)
        \* dimensions_aligned / max_possible, times 1.2 for a strong trend, at most 1.0
        confluence_score ==
            IF technical.trend_alignment >= STRONG_TREND_ALIGNMENT
            THEN Min((outcome.dimensions_aligned * SCORE_SCALE * 6) \div (max_possible * 5),
                     SCORE_SCALE)
            ELSE (outcome.dimensions_aligned * SCORE_SCALE) \div max_possible
    IN  IF dimensions = <<>>
        THEN [confluence |-> "NEUTRAL", confluence_score |-> 0, dimensions_aligned |-> 0]
        ELSE [confluence |-> outcome.confluence, confluence_score |-> confluence_score,
              dimensions_aligned |-> outcome.dimensions_aligned]

\* _is_valid_signal without the test on the time to the next event
ThreeDValidIgnoringEvents(confluence, confluence_score, dimensions_aligned, fundamental) ==
    /\ confluence \notin {"CONFLICTING", "NEUTRAL"}
    /\ dimensions_aligned >= 2
    /\ confluence_score >= MIN_CONFLUENCE_SCORE

\* ThreeDAnalyzer._is_valid_signal
three_d_is_valid_signal(confluence, confluence_score, dimensions_aligned, fundamental) ==
    IF confluence = "CONFLICTING" THEN FALSE
    ELSE IF confluence = "NEUTRAL" THEN FALSE
    ELSE IF dimensions_aligned < 2 THEN FALSE
    ELSE IF /\ fundamental.time_to_next_event # None
            /\ fundamental.time_to_next_event # 0
            /\ fundamental.time_to_next_event < PRE_EVENT_AVOID_MINUTES
    THEN FALSE
    ELSE IF confluence_score < MIN_CONFLUENCE_SCORE THEN FALSE
    ELSE TRUE

\* ThreeDAnalyzer.analyze
three_d_analyze(crypto_health, events, technical) ==
    LET fundamental == analyze_fundamental(events)
        c == calculate_confluence(crypto_health, fundamental, technical)
    IN  [ confluence |-> c.confluence, confluence_score |-> c.confluence_score,
          dimensions_aligned |-> c.dimensions_aligned,
          is_valid_signal |-> three_d_is_valid_signal(c.confluence, c.confluence_score,
                                                      c.dimensions_aligned, fundamental) ]

\* evaluate_symbol has reached three_d_analyzer.analyze
ThreeDCall(crypto_health, events, technical) ==
    [ fn |-> "three_d_analyze", pc |-> "called", crypto_health |-> crypto_health,
      events |-> events, technical |-> technical,
      result |-> [confluence |-> "NEUTRAL", confluence_score |-> 0,
                  dimensions_aligned |-> 0, is_valid_signal |-> FALSE] ]

\* analyze returns
three_d_analyze_returns ==
    /\ call.fn = "three_d_analyze"
    /\ call.pc = "called"
    /\ call' = [call EXCEPT !.pc = "returned",
                   !.result = three_d_analyze(call.crypto_health, call.events,
                                              call.technical)]
    /\ UNCHANGED <<positions, trades, riskState, cacheStatus, orders, cancelCalls, closers,
                   monitors, wsQueue, execTasks, ticks, cbTask, riskWriters, klineFeed,
                   clock>>

InitThreeD ==
    /\ OnlyCall
    /\ \E crypto_health \in DimensionAlignments, events \in SUBSET EconomicEvents,
          technical \in TechnicalResults :
          call = ThreeDCall(crypto_health, events, technical)

NextThreeD == three_d_analyze_returns

SpecThreeD == InitThreeD /\ [][NextThreeD]_vars

\* an upcoming HIGH or MEDIUM event is less than 30 minutes away
EventWithin30Minutes ==
    \E e \in call.events : /\ e.impact \in {"HIGH", "MEDIUM"}
                           /\ e.release_time > 0
                           /\ e.release_time < 30

\* C29: the 3-D signal is valid if and only if confluence is Bullish or Bearish,
\* dimensions_aligned >= 2, confluence_score >= 0.6 and no upcoming HIGH/MEDIUM
\* event is less than 30 minutes away
C29_ThreeDValidity ==
    (call.fn = "three_d_analyze" /\ call.pc = "returned") =>
        (call.result.is_valid_signal <=>
            /\ call.result.confluence \in {"BULLISH", "BEARISH"}
            /\ call.result.dimensions_aligned >= 2
            /\ call.result.confluence_score * 10 >= 6 * SCORE_SCALE
            /\ ~EventWithin30Minutes)

\* C29 witness: an otherwise valid signal with a HIGH event scheduled in 20 minutes
\* has been returned as invalid
C29_Witness ==
    /\ call.fn = "three_d_analyze"
    /\ call.pc = "returned"
    /\ call.result.confluence \in {"BULLISH", "BEARISH"}
    /\ call.result.dimensions_aligned >= 2
    /\ call.result.confluence_score * 10 >= 6 * SCORE_SCALE
    /\ [release_time |-> 20, impact |-> "HIGH", deviation |-> 0] \in call.events
    /\ ~call.result.is_valid_signal


(***************************************************************************)
(* SpecAllowed: RiskManager.is_trading_allowed with reads that can fail     *)
(***************************************************************************)
\* what system:status can hold; UNKNOWN is what get_system_status gives for an
\* absent key
CacheStatuses == {"ACTIVE", "PAUSED", "EMERGENCY_STOP", "UNKNOWN"}
StatusReasons == {"", "Max drawdown exceeded"}
StoreStatuses == {"ACTIVE", "PAUSED", "EMERGENCY_STOP"}
ReadOutcomes == {"ok", "error"}

\* RiskManager.is_trading_allowed; cache_read and store_read tell whether the
\* Redis read and the RiskState query succeed or raise
is_trading_allowed_result(cache_read, store_read) ==
    IF cache_read = "error" THEN [allowed |-> TRUE, reason |-> ""]
    ELSE IF ~is_trading_active
    THEN [allowed |-> FALSE, reason |-> cacheStatus.reason]
    ELSE IF store_read = "error" THEN [allowed |-> TRUE, reason |-> ""]
    ELSE IF riskState.system_status = "PAUSED"
    THEN [allowed |-> FALSE, reason |-> riskState.pause_reason]
    ELSE IF riskState.system_status = "EMERGENCY_STOP"
    THEN [allowed |-> FALSE, reason |-> "Emergency stop active"]
    ELSE [allowed |-> TRUE, reason |-> ""]

\* evaluate_symbol or execute_trade has reached is_trading_allowed
AllowedCall(cache_read, store_read) ==
    [ fn |-> "is_trading_allowed", pc |-> "called", cache_read |-> cache_read,
      store_read |-> store_read, result |-> [allowed |-> FALSE, reason |-> ""] ]

\* is_trading_allowed returns
is_trading_allowed_returns ==
    /\ call.fn = "is_trading_allowed"
    /\ call.pc = "called"
    /\ call' = [call EXCEPT !.pc = "returned",
                   !.result = is_trading_allowed_result(call.cache_read,
                                                        call.store_read)]
    /\ UNCHANGED <<positions, trades, riskState, cacheStatus, orders, cancelCalls, closers,
                   monitors, wsQueue, execTasks, ticks, cbTask, riskWriters, klineFeed,
                   clock>>

InitAllowed ==
    /\ positions = <<>>
    /\ trades = <<>>
    /\ orders = <<>>
    /\ cancelCalls = <<>>
    /\ clock = 0
    /\ closers = <<>>
    /\ monitors = <<>>
    /\ wsQueue = <<>>
    /\ execTasks = <<>>
    /\ ticks = <<>>
    /\ cbTask = CbIdle
    /\ riskWriters = <<>>
    /\ klineFeed = NoFeed
    /\ \E status \in CacheStatuses, reason \in StatusReasons :
          cacheStatus = set_system_status(status, reason)
    /\ \E system_status \in StoreStatuses, pause_reason \in StatusReasons :
          riskState = [NewRiskState(0, 400) EXCEPT !.system_status = system_status,
                                                   !.pause_reason = pause_reason]
    /\ \E cache_read \in ReadOutcomes, store_read \in ReadOutcomes :
          call = AllowedCall(cache_read, store_read)

NextAllowed == is_trading_allowed_returns

SpecAllowed == InitAllowed /\ [][NextAllowed]_vars

\* C30: is_trading_allowed returns allowed only when the cache system:status is
\* ACTIVE; for any other status (PAUSED, EMERGENCY_STOP, unknown or absent) and on
\* any error while reading the status it returns not-allowed
C30_AllowedOnlyWhenActive ==
    (call.fn = "is_trading_allowed" /\ call.pc = "returned" /\ call.result.allowed) =>
        (call.cache_read = "ok" /\ cacheStatus.status = "ACTIVE")


(***************************************************************************)
(* SpecDegraded: RedisCache readers and writers, monitor_positions and      *)
(* strategy_tick against a Redis server that may be unreachable             *)
(***************************************************************************)
\* the Redis server during one call: reachable, unreachable, or reachable for
\* the ping of RedisCache() and unreachable afterwards
RedisStates == {"up", "down", "lost"}
CachedPrices == {None, 98, 105}
\* what get_ticker_price gives; None stands for the exchange call raising
TickerPrices == {None, 98, 100, 105}
DegradedCalls == {"get_price", "set_price", "monitor_positions", "strategy_tick"}

\* RedisCache.__init__: the ping; ConnectionError is logged and raised again
redis_cache_init(redis) == IF redis = "down" THEN "raised" ELSE "ok"

\* RedisCache.get_price on a constructed cache: client.get is not guarded
cache_get_price(redis, cached) ==
    IF redis # "up" THEN [status |-> "raised", value |-> None]
    ELSE [status |-> "returned", value |-> cached]

\* RedisCache.set_price on a constructed cache: client.setex is not guarded
cache_set_price(redis) ==
    IF redis # "up" THEN [status |-> "raised", value |-> None]
    ELSE [status |-> "returned", value |-> None]

\* the current_prices loop of monitor_positions: the cached price, else the
\* ticker price; a symbol whose ticker call raises is skipped
monitor_current_prices(cached, ticker) ==
    LET price == IF cached # None THEN cached ELSE ticker
    IN  IF price = None THEN <<>> ELSE [symbol \in Symbols |-> price]

\* a task or a cache method is about to run against the Redis server
\* system_status notes what today's RiskState held when the task ran
DegradedCall(fn, redis, cached, ticker) ==
    [ fn |-> fn, pc |-> "called", redis |-> redis, cached |-> cached, ticker |-> ticker,
      system_status |-> "", result |-> [status |-> "", value |-> None] ]

\* RedisCache.get_price returns or raises
get_price_returns ==
    /\ call.fn = "get_price"
    /\ call.pc = "called"
    /\ call' = [call EXCEPT !.pc = "returned",
                            !.result = cache_get_price(call.redis, call.cached)]
    /\ UNCHANGED <<positions, trades, riskState, cacheStatus, orders, cancelCalls, closers,
                   monitors, wsQueue, execTasks, ticks, cbTask, riskWriters, klineFeed,
                   clock>>

\* RedisCache.set_price returns or raises
set_price_returns ==
    /\ call.fn = "set_price"
    /\ call.pc = "called"
    /\ call' = [call EXCEPT !.pc = "returned", !.result = cache_set_price(call.redis)]
    /\ UNCHANGED <<positions, trades, riskState, cacheStatus, orders, cancelCalls, closers,
                   monitors, wsQueue, execTasks, ticks, cbTask, riskWriters, klineFeed,
                   clock>>

\* monitor_positions with a test of the system status ahead of its work
MonitorPositionsUnlessPaused ==
    /\ call.fn = "monitor_positions"
    /\ call.pc = "called"
    /\ ~is_trading_active
    /\ call' = [call EXCEPT !.pc = "returned",
                            !.system_status = riskState.system_status,
                            !.result = [status |-> "paused", value |-> None]]
    /\ UNCHANGED <<positions, trades, riskState, cacheStatus, orders, cancelCalls, closers,
                   monitors, wsQueue, execTasks, ticks, cbTask, riskWriters, klineFeed,
                   clock>>

\* the monitor_positions task from RedisCache() to its return: an exception of
\* the cache ends it in the outer handler with status error
monitor_positions_task ==
    /\ call.fn = "monitor_positions"
    /\ call.pc = "called"
    /\ IF \/ redis_cache_init(call.redis) = "raised"
          \/ cache_get_price(call.redis, call.cached).status = "raised"
       THEN /\ call' = [call EXCEPT !.pc = "returned",
                                    !.system_status = riskState.system_status,
                                    !.result = [status |-> "error", value |-> None]]
            /\ UNCHANGED <<positions, closers>>
       ELSE LET current_prices == monitor_current_prices(call.cached, call.ticker)
                updated  == trailing_loop(positions, Len(positions), current_prices)
                to_close == positions_to_close(updated, Len(updated), current_prices)
            IN  /\ Len(closers) + Len(to_close) <= MaxCloseTasks
                /\ positions' = updated
                /\ closers' = closers \o to_close
                /\ call' = [call EXCEPT !.pc = "returned",
                               !.system_status = riskState.system_status,
                               !.result = [status |-> "ok", value |-> Len(to_close)]]
    /\ UNCHANGED <<trades, riskState, cacheStatus, orders, cancelCalls, monitors, wsQueue,
                   execTasks, ticks, cbTask, riskWriters, klineFeed, clock>>

\* the strategy_tick task up to evaluate_all_symbols: RedisCache() or
\* is_trading_active raising sends the task to self.retry
strategy_tick_task ==
    /\ call.fn = "strategy_tick"
    /\ call.pc = "called"
    /\ IF redis_cache_init(call.redis) = "raised" \/ call.redis = "lost"
       THEN /\ ticks' = Append(ticks, NewTick(1))
            /\ call' = [call EXCEPT !.pc = "returned",
                                    !.result = [status |-> "retry", value |-> None]]
       ELSE /\ ticks' = ticks
            /\ call' = [call EXCEPT !.pc = "returned",
                           !.result = [status |-> IF is_trading_active THEN "evaluated"
                                                  ELSE "paused",
                                       value |-> None]]
    /\ UNCHANGED <<positions, trades, riskState, cacheStatus, orders, cancelCalls, closers,
                   monitors, wsQueue, execTasks, cbTask, riskWriters, klineFeed, clock>>

InitDegraded ==
    /\ \E side \in Sides :
          /\ trades = <<FilledEntryTrade(1, TRADING_PAIRS[1], side, 1, 100)>>
          /\ positions = <<create_position_from_trade(1, trades[1])>>
          /\ orders = <<FilledEntryOrder(TRADING_PAIRS[1], side, 1, 100)>>
    /\ cancelCalls = <<>>
    /\ InitTrading(400)
    /\ closers = <<>>
    /\ monitors = <<>>
    /\ wsQueue = <<>>
    /\ execTasks = <<>>
    /\ ticks = <<>>
    /\ cbTask = CbIdle
    /\ riskWriters = <<>>
    /\ klineFeed = NoFeed
    /\ \E fn \in DegradedCalls, redis \in RedisStates, cached \in CachedPrices,
          ticker \in TickerPrices :
          call = DegradedCall(fn, redis, cached, ticker)

NextDegraded ==
    \/ get_price_returns
    \/ set_price_returns
    \/ monitor_positions_task
    \/ strategy_tick_task

SpecDegraded == InitDegraded /\ [][NextDegraded]_vars

\* C31: when the cache backing store is unreachable, a cache reader returns
\* absent and a writer drops the write without raising, and strategy_tick and
\* monitor_positions still complete their work
C31_DegradedCacheContinues ==
    (call.fn \in DegradedCalls /\ call.pc = "returned" /\ call.redis # "up") =>
        /\ call.fn = "get_price" =>
               call.result = [status |-> "returned", value |-> None]
        /\ call.fn = "set_price" => call.result.status = "returned"
        /\ call.fn = "monitor_positions" => call.result.status = "ok"
        /\ call.fn = "strategy_tick" => call.result.status \in {"evaluated", "paused"}


(***************************************************************************)
(* Further properties of SpecRisk                                          *)
(***************************************************************************)
\* a step in which a resume handler saves the RiskState row
ResumeSaved ==
    \E w \in DOMAIN riskWriters : /\ riskWriters[w].handler = "resume"
                                  /\ riskWriters' = RemoveAt(riskWriters, w)

\* C37: once the circuit breaker has tripped the pause stays in force until a
\* manual resume: no write other than the resume handlers' returns today's
\* RiskState.system_status from PAUSED to ACTIVE, under any interleaving with
\* monitor_order's whole-row save
C37_PauseHeldUntilResume ==
    [][(riskState.system_status = "PAUSED" /\ riskState'.system_status = "ACTIVE")
           => ResumeSaved]_vars

\* a step in which monitor_order, having seen its Trade FILLED, saves the
\* RiskState row
MonitorSaved ==
    \E w \in DOMAIN riskWriters : /\ riskWriters[w].handler = "monitor_order"
                                  /\ riskWriters' = RemoveAt(riskWriters, w)

\* C39: RiskState.total_trades is incremented exactly once for each Trade that
\* reaches FILLED: every save monitor_order makes for a fill raises the stored
\* count by one, and no other write changes it, whatever runs concurrently
C39_TotalTradesCountsFills ==
    [][riskState'.total_trades =
           riskState.total_trades + (IF MonitorSaved THEN 1 ELSE 0)]_vars

\* C32: every operation that changes the system status in both places writes
\* the RiskState row first and the cache system:status afterwards: whenever the
\* cached status changes, the store already holds the new status
C32_StoreBeforeCache ==
    [][cacheStatus'.status # cacheStatus.status =>
           riskState'.system_status = cacheStatus'.status]_vars


(***************************************************************************)
(* SpecPaused: monitor_positions, sent by the beat every 5 seconds, next to *)
(* manual pause and resume                                                  *)
(***************************************************************************)
\* the beat sends monitor_positions again once the last run has returned
beat_monitor_positions ==
    /\ call.fn = "monitor_positions"
    /\ call.pc = "returned"
    /\ \E cached \in CachedPrices, ticker \in TickerPrices :
          call' = DegradedCall("monitor_positions", "up", cached, ticker)
    /\ UNCHANGED <<positions, trades, riskState, cacheStatus, orders, cancelCalls, closers,
                   monitors, wsQueue, execTasks, ticks, cbTask, riskWriters, klineFeed,
                   clock>>

InitPaused ==
    /\ \E side \in Sides :
          /\ trades = <<FilledEntryTrade(1, TRADING_PAIRS[1], side, 1, 100)>>
          /\ positions = <<create_position_from_trade(1, trades[1])>>
          /\ orders = <<FilledEntryOrder(TRADING_PAIRS[1], side, 1, 100)>>
    /\ cancelCalls = <<>>
    /\ InitTrading(400)
    /\ closers = <<>>
    /\ monitors = <<>>
    /\ wsQueue = <<>>
    /\ execTasks = <<>>
    /\ ticks = <<>>
    /\ cbTask = CbIdle
    /\ riskWriters = <<>>
    /\ klineFeed = NoFeed
    /\ \E cached \in CachedPrices, ticker \in TickerPrices :
          call = DegradedCall("monitor_positions", "up", cached, ticker)

NextPaused ==
    \/ beat_monitor_positions
    \/ monitor_positions_task
    \/ \E failing \in SUBSET Symbols : pause_system(failing)
    \/ resume_system

SpecPaused == InitPaused /\ [][NextPaused]_vars

\* the price has crossed the stop or the take profit of position p
Crossed(p, price) ==
    \/ p.side = "BUY" /\ price <= p.current_stop
    \/ p.side = "BUY" /\ p.take_profit # None /\ price >= p.take_profit
    \/ p.side = "SELL" /\ price >= p.current_stop
    \/ p.side = "SELL" /\ p.take_profit # None /\ price <= p.take_profit

\* a step that is a run of monitor_positions while today's RiskState is PAUSED
MonitorRanPaused ==
    /\ call.fn = "monitor_positions" /\ call.pc = "called" /\ call'.pc = "returned"
    /\ riskState.system_status = "PAUSED"

\* C33: while the system is PAUSED monitor_positions keeps running its full
\* cycle: it updates the trailing stops and enqueues close_position for every
\* OPEN position whose stop or take-profit condition is crossed
C33_MonitorRunsWhilePaused ==
    [][MonitorRanPaused =>
        LET current_prices == monitor_current_prices(call.cached, call.ticker)
        IN  /\ positions' = trailing_loop(positions, Len(positions), current_prices)
            /\ \A i \in DOMAIN positions :
                  ( /\ positions[i].status = "OPEN"
                    /\ positions[i].symbol \in DOMAIN current_prices
                    /\ Crossed(positions'[i], current_prices[positions[i].symbol]) )
                  => \E k \in (Len(closers) + 1)..Len(closers') :
                        /\ closers'[k].position_id = i
                        /\ closers'[k].pc = "queued"]_vars

\* C33 witness: a run of monitor_positions made while the RiskState was PAUSED
\* has enqueued a close_position
C33_Witness ==
    /\ call.fn = "monitor_positions"
    /\ call.pc = "returned"
    /\ call.system_status = "PAUSED"
    /\ call.result.status = "ok"
    /\ call.result.value > 0
    /\ closers # <<>>


(***************************************************************************)
(* SpecExit: the three exit paths of one OPEN position together:            *)
(* strategy_tick's exit signal executed by execute_trade, monitor_positions *)
(* with close_position, and the manual close                               *)
(***************************************************************************)
\* the prices of this specification: below the stop of a long, above the stop
\* of a short
ExitPrices == {98, 102}

MaxExitTasks == 1

InitExit ==
    /\ \E side \in Sides :
          /\ trades = <<FilledEntryTrade(1, TRADING_PAIRS[1], side, 1, 100)>>
          /\ positions = <<create_position_from_trade(1, trades[1])>>
          /\ orders = <<FilledEntryOrder(TRADING_PAIRS[1], side, 1, 100)>>
    /\ cancelCalls = <<>>
    /\ InitTrading(400)
    /\ NoTasks

\* at most MaxExitTasks execute_trade instances and as many close_position
\* instances are sent
NextExit ==
    \/ /\ Len(execTasks) < MaxExitTasks
       /\ \E current_price \in ExitPrices :
             strategy_evaluate(TRADING_PAIRS[1], current_price, "NONE")
    \/ \E e \in DOMAIN execTasks : exec_place(e)
    \/ \E e \in DOMAIN execTasks : exec_persist(e)
    \/ /\ Len(closers) < MaxExitTasks
       /\ \E current_prices \in [HeldSymbols -> ExitPrices] :
             monitor_positions(current_prices)
    \/ /\ Len(closers) < MaxExitTasks
       /\ \E i \in DOMAIN positions : manual_close(i)
    \/ \E w \in DOMAIN closers : close_read(w)
    \/ \E w \in DOMAIN closers : close_place(w)
    \/ \E w \in DOMAIN closers : close_create_trade(w)
    \/ \E w \in DOMAIN closers : close_save(w)

SpecExit == InitExit /\ [][NextExit]_vars

\* the execute_trade instances that carry an exit signal for position i
ExitExecsOf(i) ==
    {e \in DOMAIN execTasks : /\ execTasks[e].signal.symbol = positions[i].symbol
                              /\ IsExitOf(execTasks[e].signal, positions[i])}

\* the exit orders placed on the exchange for position i by any path
AllExitOrdersOf(i) ==
    ExitOrdersOf(i) \cup
    {execTasks[e].order_id : e \in {x \in ExitExecsOf(i) : execTasks[x].order_id # None}}

\* the exit orders for position i whose placing task has run to its end
FinishedExitOrdersOf(i) ==
    {closers[w].order_id :
        w \in {x \in DOMAIN closers : closers[x].position_id = i /\ closers[x].pc = "done"}}
    \cup
    {execTasks[e].order_id : e \in {x \in ExitExecsOf(i) : execTasks[x].pc = "done"}}

\* C34: for every Position, over all exit paths together, at most one exit order
\* is ever placed on the exchange, and once the task that placed an exit order
\* has finished the position is CLOSED and linked to that order's exit Trade
C34_SingleExitAllPaths ==
    \A i \in DOMAIN positions :
        /\ Cardinality(AllExitOrdersOf(i)) <= 1
        /\ \A o \in FinishedExitOrdersOf(i) :
              /\ positions[i].status = "CLOSED"
              /\ positions[i].exit_trade # None
              /\ trades[positions[i].exit_trade].binance_order_id = o


(***************************************************************************)
(* Further properties of SpecPipeline                                      *)
(***************************************************************************)
\* the signals whose entry order for the symbol is on the exchange and not yet
\* filled or ended, no Position existing for it yet
OutstandingEntries(symbol) ==
    {orders[o].origin.ref : o \in {x \in EntryOrders : /\ orders[x].symbol = symbol
                                                       /\ IsWorking(orders[x])}}

\* C35: for every symbol there is at most one outstanding entry at any time:
\* while an entry order for the symbol is still PENDING or PARTIALLY_FILLED,
\* successive strategy_tick runs place no further entry order for that symbol
C35_OneOutstandingEntry ==
    \A symbol \in Symbols : Cardinality(OutstandingEntries(symbol)) <= 1


\* the orders on the exchange that execute_trade has placed for the signal
OrdersOfSignal(id) == {o \in EntryOrders : orders[o].origin.ref = id}

\* C36: execute_trade places at most one exchange order per signal across all of
\* its retries: a failure after the order was placed does not cause a second
\* order for the same signal
C36_OneOrderPerSignal ==
    \A e \in DOMAIN execTasks : Cardinality(OrdersOfSignal(execTasks[e].signal.id)) <= 1


(***************************************************************************)
(* Further properties of SpecBreaker                                       *)
(***************************************************************************)
\* a step that is a run of the check_circuit_breaker task while today's
\* RiskState is already PAUSED
CheckRanPaused ==
    /\ cbTask'.seq # cbTask.seq /\ cbTask'.op = "check"
    /\ riskState.system_status = "PAUSED"

\* C38: when the check_circuit_breaker task runs while today's RiskState is
\* already PAUSED it only reports the paused state: pause_reason and paused_at
\* keep the values of the original trip and cancel_all_orders is not invoked
C38_PausedCheckOnlyReports ==
    [][CheckRanPaused =>
           /\ riskState'.pause_reason = riskState.pause_reason
           /\ riskState'.paused_at = riskState.paused_at
           /\ cancelCalls' = cancelCalls]_vars


(***************************************************************************)
(* SpecExitFill: an open position, the two paths that place its exit       *)
(* order, the exchange filling that order, and monitor_order on the exit   *)
(* Trade                                                                   *)
(***************************************************************************)
InitExitFill ==
    /\ \E side \in Sides :
          /\ trades = <<FilledEntryTrade(1, TRADING_PAIRS[1], side, 1, 100)>>
          /\ positions = <<create_position_from_trade(1, trades[1])>>
          /\ orders = <<FilledEntryOrder(TRADING_PAIRS[1], side, 1, 100)>>
    /\ cancelCalls = <<>>
    /\ InitTrading(400)
    /\ NoTasks

\* at most MaxExitTasks execute_trade instances and as many close_position
\* instances are sent; the exchange fills an exit order whole
NextExitFill ==
    \/ /\ Len(execTasks) < MaxExitTasks
       /\ \E current_price \in ExitPrices :
             strategy_evaluate(TRADING_PAIRS[1], current_price, "NONE")
    \/ \E e \in DOMAIN execTasks : exec_place(e)
    \/ \E e \in DOMAIN execTasks : exec_persist(e)
    \/ /\ Len(closers) < MaxExitTasks
       /\ \E i \in DOMAIN positions : manual_close(i)
    \/ \E w \in DOMAIN closers : close_read(w)
    \/ \E w \in DOMAIN closers : close_place(w)
    \/ \E w \in DOMAIN closers : close_create_trade(w)
    \/ \E w \in DOMAIN closers : close_save(w)
    \/ \E o \in DOMAIN orders, fill_price \in ExitPrices :
          exchange_fill(o, orders[o].origQty, fill_price)
    \/ \E m \in DOMAIN monitors : monitor_read(m)
    \/ \E m \in DOMAIN monitors : monitor_poll(m)
    \/ \E m \in DOMAIN monitors : monitor_apply(m)

SpecExitFill == InitExitFill /\ [][NextExitFill]_vars

\* the Trade was created for an exit order: by close_position, or by
\* execute_trade for a CLOSE_LONG / CLOSE_SHORT signal
IsExitTrade(t) ==
    \/ orders[trades[t].binance_order_id].origin.task = "close_position"
    \/ \E e \in DOMAIN execTasks :
          /\ execTasks[e].order_id = trades[t].binance_order_id
          /\ execTasks[e].signal.action \in {"CLOSE_LONG", "CLOSE_SHORT"}

\* the FILLED entry Trades some Position row names as its entry_trade
EntryTradesWithPosition ==
    {t \in DOMAIN trades :
        /\ ~IsExitTrade(t)
        /\ trades[t].status = "FILLED"
        /\ \E i \in DOMAIN positions : positions[i].entry_trade = t}

\* C40: the fill of an exit Trade (created by close_position, or by execute_trade
\* for a CLOSE_LONG / CLOSE_SHORT signal) creates no Position: no Position row
\* has an exit Trade as its entry_trade, and the number of Position rows is the
\* number of FILLED entry Trades that opened one
C40_ExitFillOpensNoPosition ==
    /\ \A i \in DOMAIN positions : ~IsExitTrade(positions[i].entry_trade)
    /\ Len(positions) = Cardinality(EntryTradesWithPosition)

\* C40 witness: monitor_order has run to its end on the fill of close_position's
\* exit Trade and on the fill of execute_trade's exit Trade
C40_Witness ==
    /\ \E m \in DOMAIN monitors :
          /\ monitors[m].pc = "done"
          /\ trades[monitors[m].trade_id].status = "FILLED"
          /\ orders[trades[monitors[m].trade_id].binance_order_id].origin.task
                = "close_position"
    /\ \E m \in DOMAIN monitors :
          /\ monitors[m].pc = "done"
          /\ trades[monitors[m].trade_id].status = "FILLED"
          /\ IsExitTrade(monitors[m].trade_id)
          /\ orders[trades[monitors[m].trade_id].binance_order_id].origin.task
                = "execute_trade"

====
